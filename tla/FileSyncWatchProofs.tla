------------------------- MODULE FileSyncWatchProofs -------------------------
(***************************************************************************)
(* A file's watch leads back to it, and the directory follows the          *)
(* database, for any files, any bounds and any buffer.                     *)
(*                                                                         *)
(* Stream is every event that is still to be processed, in order; QueueInv *)
(* says how it is made up.  BackInv says for each file object how its      *)
(* watch is reached, or why not.  DescriptorInv is about descriptors that  *)
(* events still carry: none is of two files, the entry of each, if there   *)
(* is one, names the file, and the removal of an inode is its watch's last *)
(* event.  DiskInv is what makes DiskCoherent inductive: for every name    *)
(* that was not lost sight of, what is pending is enough to bring the      *)
(* directory, the table and the rows together again.                       *)
(***************************************************************************)
EXTENDS FileSyncProofs

-----------------------------------------------------------------------------
(* The events as one stream: what was read, what the read left in the buffer *)
(* and what the kernel has.  A header of the directory's watch is followed   *)
(* by its name, unless the read cut it off.                                  *)

Stream == batch \o input \o kernelQ
Drop(q, k) == SubSeq(q, k + 1, Len(q))
Paired(q) == \A i \in DOMAIN q :
               q[i].kind = "create" => i + 1 \in DOMAIN q /\ q[i + 1].kind = "name"

QueueInv == Paired(Stream) /\ (pc \notin {"inotify", "crashed"} => batch = <<>>)

LEMMA Dropped ==
  ASSUME NEW X, NEW q \in Seq(X), NEW k \in 0 .. Len(q)
  PROVE  /\ Drop(q, k) \in Seq(X) /\ Len(Drop(q, k)) = Len(q) - k
         /\ DOMAIN Drop(q, k) = 1 .. Len(q) - k
         /\ \A i \in 1 .. Len(q) - k : Drop(q, k)[i] = q[i + k] /\ i + k \in DOMAIN q
<1> DEFINE r == Drop(q, k)
<1>1. /\ Len(q) \in Nat /\ k \in Nat /\ k <= Len(q) /\ DOMAIN q = 1 .. Len(q)
      /\ \A i \in k + 1 .. Len(q) : q[i] \in X
  OBVIOUS
<1>2. /\ r \in Seq(X) /\ Len(r) = IF k + 1 <= Len(q) THEN Len(q) - (k + 1) + 1 ELSE 0
      /\ \A i \in 1 .. Len(q) - (k + 1) + 1 : r[i] = q[(k + 1) + i - 1]
  BY <1>1, SubSeqProperties DEF Drop
<1> HIDE DEF r
<1>6. ASSUME NEW n \in Nat, k \in Nat, k <= n
      PROVE  /\ n - (k + 1) + 1 = n - k
             /\ (IF k + 1 <= n THEN n - (k + 1) + 1 ELSE 0) = n - k
             /\ \A i \in 1 .. n - k : (k + 1) + i - 1 = i + k /\ i + k \in 1 .. n
  BY <1>6
<1>0. /\ Len(q) - (k + 1) + 1 = Len(q) - k
      /\ (IF k + 1 <= Len(q) THEN Len(q) - (k + 1) + 1 ELSE 0) = Len(q) - k
      /\ \A i \in 1 .. Len(q) - k : (k + 1) + i - 1 = i + k /\ i + k \in 1 .. Len(q)
  BY <1>1, <1>6
<1>3. Len(r) = Len(q) - k
  BY <1>0, <1>2
<1>5. DOMAIN r = 1 .. Len(q) - k
  BY <1>2, <1>3, LenProperties
<1>4. \A i \in 1 .. Len(q) - k : r[i] = q[i + k] /\ i + k \in DOMAIN q
  BY <1>0, <1>1, <1>2
<1> QED
  BY <1>2, <1>3, <1>4, <1>5 DEF r

\* What is dropped is at the front.
LEMMA DroppedRange ==
  ASSUME NEW X, NEW q \in Seq(X), NEW k \in 0 .. Len(q)
  PROVE  /\ Range(Drop(q, k)) \subseteq Range(q)
         /\ \A u \in Range(q) \ Range(Drop(q, k)) : \E i \in 1 .. k : u = q[i]
<1>1. /\ DOMAIN Drop(q, k) = 1 .. Len(q) - k /\ Len(q) \in Nat /\ k \in Nat /\ k <= Len(q)
      /\ DOMAIN q = 1 .. Len(q)
      /\ \A i \in 1 .. Len(q) - k : Drop(q, k)[i] = q[i + k] /\ i + k \in DOMAIN q
  BY Dropped
<1> DEFINE r == Drop(q, k)
<1> HIDE DEF r
<1>2. /\ DOMAIN r = 1 .. Len(q) - k
      /\ \A i \in 1 .. Len(q) - k : r[i] = q[i + k] /\ i + k \in DOMAIN q
  BY <1>1 DEF r
<1>3. Range(r) \subseteq Range(q)
  BY <1>2 DEF Range
<1>4. ASSUME NEW i \in DOMAIN q, i \notin 1 .. k PROVE q[i] \in Range(r)
  <2>1. i - k \in 1 .. Len(q) - k /\ (i - k) + k = i
    BY <1>1, <1>4
  <2>2. r[i - k] = q[i] /\ i - k \in DOMAIN r
    BY <1>2, <2>1
  <2> QED
    BY <2>2 DEF Range
<1>5. \A u \in Range(q) \ Range(r) : \E i \in 1 .. k : u = q[i]
  BY <1>4 DEF Range
<1> QED
  BY <1>3, <1>5 DEF r

LEMMA Joined ==
  ASSUME NEW X, NEW p \in Seq(X), NEW q \in Seq(X), NEW r \in Seq(X)
  PROVE  /\ p \o q \o r \in Seq(X) /\ p \o q \o r = p \o (q \o r)
         /\ Range(p \o q \o r) = Range(r) \cup Range(q) \cup Range(p)
<1>0. p \o q \in Seq(X) /\ q \o r \in Seq(X)
  BY ConcatProperties
<1>1. (p \o q) \o r \in Seq(X)
  BY <1>0, ConcatProperties
<1> DEFINE pq == p \o q
<1>5. pq \in Seq(X)
  BY <1>0
<1> HIDE DEF pq
<1>6. Range(pq \o r) = Range(pq) \cup Range(r)
  BY <1>5, RangeFacts
<1>2. Range((p \o q) \o r) = Range(p \o q) \cup Range(r)
  BY <1>6 DEF pq
<1>3. Range(p \o q) = Range(p) \cup Range(q)
  BY RangeFacts
<1>4. (p \o q) \o r = p \o (q \o r)
  OBVIOUS
<1> QED
  BY <1>1, <1>2, <1>3, <1>4

LEMMA Associates ==
  ASSUME NEW p \in Seq(EventType), NEW q \in Seq(EventType), NEW r \in Seq(EventType)
  PROVE  p \o q \o r = p \o (q \o r)
OBVIOUS

LEMMA StreamRange ==
  /\ Typed => Stream \in Seq(EventType) /\ Range(Stream) = Happened
  /\ Typed' => Stream' \in Seq(EventType) /\ Range(Stream') = Happened'
<1>1. ASSUME Typed PROVE Stream \in Seq(EventType) /\ Range(Stream) = Happened
  BY <1>1, Joined DEF Typed, QueuesTyped, Stream, Happened
<1>2. ASSUME Typed' PROVE Stream' \in Seq(EventType) /\ Range(Stream') = Happened'
  <2>1. batch' \in Seq(EventType) /\ input' \in Seq(EventType) /\ kernelQ' \in Seq(EventType)
    BY <1>2 DEF Typed, QueuesTyped
  <2>2. Stream' = batch' \o input' \o kernelQ'
        /\ Happened' = Range(kernelQ') \cup Range(input') \cup Range(batch')
    BY DEF Stream, Happened, Range
  <2> QED
    BY <2>1, <2>2, Joined
<1> QED
  BY <1>1, <1>2

\* A branch of handleInotifyEvent takes its event off the front.
LEMMA StreamSkip ==
  ASSUME Typed, batch # <<>>, NEW k \in Nat, Skip(k), k <= Len(batch),
         UNCHANGED <<kernelQ, input>>
  PROVE  /\ Stream' = Drop(Stream, k) /\ k \in 0 .. Len(Stream) /\ Stream[1] = Head(batch)
         /\ 1 \in DOMAIN Stream
<1> DEFINE rest == input \o kernelQ
<1>1. /\ batch \in Seq(EventType) /\ input \in Seq(EventType) /\ kernelQ \in Seq(EventType)
      /\ rest \in Seq(EventType) /\ Stream = batch \o rest
  <2>1. batch \in Seq(EventType) /\ input \in Seq(EventType) /\ kernelQ \in Seq(EventType)
    BY DEF Typed, QueuesTyped
  <2> QED
    BY <2>1, ConcatProperties, Joined DEF Stream
<1>2. batch' = Drop(batch, k) /\ k \in 0 .. Len(batch)
  BY <1>1 DEF Skip, Drop
<1>3. batch' \in Seq(EventType) /\ Stream' = Drop(batch, k) \o rest
  <2>1. Drop(batch, k) \in Seq(EventType)
    BY <1>1, <1>2, Dropped
  <2>2. Stream' = batch' \o input \o kernelQ
    BY DEF Stream
  <2>3. Stream' = Drop(batch, k) \o input \o kernelQ
    BY <1>2, <2>2
  <2>4. ASSUME NEW d \in Seq(EventType) PROVE d \o input \o kernelQ = d \o (input \o kernelQ)
    <3>1. input \in Seq(EventType) /\ kernelQ \in Seq(EventType)
      BY <1>1
    <3>2. d \in Seq(EventType)
      BY <2>4
    <3> HIDE DEF rest
    <3> QED
      BY ONLY <3>1, <3>2, Associates
  <2> QED
    BY <1>2, <2>1, <2>3, <2>4
<1> HIDE DEF rest
<1>4. /\ Len(Drop(batch, k)) = Len(batch) - k /\ Drop(batch, k) \in Seq(EventType)
      /\ \A i \in 1 .. Len(batch) - k : Drop(batch, k)[i] = batch[i + k]
  BY <1>1, <1>2, Dropped
<1>5. /\ Stream \in Seq(EventType) /\ Len(Stream) = Len(batch) + Len(rest)
      /\ Len(batch) \in Nat /\ Len(rest) \in Nat /\ k \in 0 .. Len(Stream)
  BY <1>1, <1>2, ConcatProperties
<1>6. /\ Drop(Stream, k) \in Seq(EventType) /\ Len(Drop(Stream, k)) = Len(Stream) - k
      /\ \A i \in 1 .. Len(Stream) - k : Drop(Stream, k)[i] = Stream[i + k]
  BY <1>5, Dropped
<1>7. \A i \in 1 .. Len(Stream) : Stream[i] = IF i <= Len(batch) THEN batch[i] ELSE rest[i - Len(batch)]
  BY <1>1, <1>5, ConcatProperties
<1> DEFINE d == Drop(batch, k)
           t == Drop(Stream, k)
<1>8. /\ d \in Seq(EventType) /\ Len(d) = Len(batch) - k
      /\ \A i \in 1 .. Len(batch) - k : d[i] = batch[i + k]
      /\ t \in Seq(EventType) /\ Len(t) = Len(Stream) - k
      /\ \A i \in 1 .. Len(Stream) - k : t[i] = Stream[i + k]
  BY <1>4, <1>6
<1> HIDE DEF d, t
<1>9. /\ d \o rest \in Seq(EventType) /\ Len(d \o rest) = Len(t)
      /\ \A i \in 1 .. Len(d) + Len(rest) :
           (d \o rest)[i] = IF i <= Len(d) THEN d[i] ELSE rest[i - Len(d)]
  <2>1. d \o rest \in Seq(EventType) /\ Len(d \o rest) = Len(d) + Len(rest)
    BY <1>1, <1>8, ConcatProperties
  <2>2. Len(d) + Len(rest) = Len(t)
    BY <1>2, <1>5, <1>8
  <2> QED
    BY <1>1, <1>8, <2>1, <2>2, ConcatProperties
<1>10. ASSUME NEW i \in 1 .. Len(t) PROVE (d \o rest)[i] = t[i]
  <2>1. i + k \in 1 .. Len(Stream) /\ t[i] = Stream[i + k] /\ Len(t) = Len(d) + Len(rest)
    BY <1>2, <1>5, <1>8
  <2>2. CASE i <= Len(d)
    <3>1. i \in 1 .. Len(batch) - k /\ i + k <= Len(batch)
      BY <1>2, <1>5, <1>8, <2>2
    <3> QED
      BY <1>7, <1>8, <1>9, <2>1, <2>2, <3>1
  <2>3. CASE ~(i <= Len(d))
    <3>1. ~(i + k <= Len(batch)) /\ i - Len(d) = (i + k) - Len(batch)
      BY <1>2, <1>5, <1>8, <2>3
    <3> QED
      BY <1>7, <1>9, <2>1, <2>3, <3>1
  <2> QED
    BY <2>2, <2>3
<1>11. d \o rest = t
  BY <1>8, <1>9, <1>10, SeqEqual
<1>12. Stream[1] = Head(batch) /\ 1 \in DOMAIN Stream
  BY <1>1, <1>2, <1>5, <1>7
<1> QED
  BY <1>3, <1>5, <1>11, <1>12 DEF d, t

\* A read moves the stream from the kernel to the batch; while ignoring, what it
\* takes is dropped.
LEMMA StreamRead ==
  ASSUME Typed, QueueInv, handleInotifyEvent
  PROVE  \/ Stream' = Stream /\ ~ignoreFS
         \/ /\ ignoreFS /\ batch' = <<>>
            /\ \E k \in 0 .. Len(Stream) :
                 /\ Stream' = Drop(Stream, k)
                 /\ \A i \in 1 .. k : Stream[i].by = "R" => Stream[i].name \in excused'
<1> DEFINE got == input \o kernelQ
           m == Min({BufUnits, Len(got)})
<1>1. /\ input \in Seq(EventType) /\ kernelQ \in Seq(EventType) /\ batch = <<>>
      /\ <<>> \in Seq(EventType) /\ got \in Seq(EventType)
  BY ConcatProperties DEF Typed, QueuesTyped, QueueInv, handleInotifyEvent
<1>2. Stream = got
  BY <1>1, Joined DEF Stream
<1>3. /\ input' = SubSeq(got, BufUnits + 1, Len(got)) /\ kernelQ' = <<>>
      /\ IF ignoreFS
         THEN /\ batch' = batch
              /\ excused' = excused \cup
                   {SubSeq(got, 1, m)[i].name :
                     i \in {j \in DOMAIN SubSeq(got, 1, m) : SubSeq(got, 1, m)[j].by = "R"}}
         ELSE batch' = SubSeq(got, 1, m)
  BY DEF handleInotifyEvent
<1>4. Len(got) \in Nat /\ BufUnits \in Nat
  BY <1>1, FileSyncAssumption
<1>5. m \in {BufUnits, Len(got)} /\ m <= BufUnits /\ m <= Len(got)
  <2> DEFINE S == {BufUnits, Len(got)}
  <2>1. \E x \in S : \A y \in S : x <= y
    BY <1>4
  <2>2. m \in S /\ \A y \in S : m <= y
    BY <2>1 DEF Min
  <2> QED
    BY <2>2
<1> HIDE DEF m, got
<1>6. m \in 0 .. Len(got) /\ input' = Drop(got, m)
  <2>1. CASE BufUnits <= Len(got)
    <3>1. m = BufUnits
      BY <1>4, <1>5, <2>1
    <3> QED
      BY <1>3, <1>4, <1>5, <3>1 DEF Drop
  <2>2. CASE ~(BufUnits <= Len(got))
    <3>1. m = Len(got)
      BY <1>4, <1>5, <2>2
    <3>2. input' = <<>>
      BY <1>3, <1>4, <2>2, SubSeqEmpty
    <3>3. Drop(got, m) = <<>>
      BY <1>4, <3>1, SubSeqEmpty DEF Drop
    <3> QED
      BY <1>4, <3>1, <3>2, <3>3
  <2> QED
    BY <2>1, <2>2
<1>7. Drop(got, m) \in Seq(EventType)
  BY <1>1, <1>6, Dropped
<1>8. CASE ~ignoreFS
  <2>1. /\ SubSeq(got, 1, m) \in Seq(EventType) /\ \A i \in 1 .. m : SubSeq(got, 1, m)[i] = got[i]
    <3>1. \A i \in 1 .. m : got[i] \in EventType
      BY <1>1, <1>6
    <3> QED
      BY <1>6, <3>1, SubSeqProperties
  <2>2. SubSeq(got, 1, m) \o Drop(got, m) = got
    <3>1. SubSeq(got, 1, m) \o SubSeq(got, m + 1, Len(got)) = SubSeq(got, 1, Len(got))
      <4>1. 1 \in 1 .. Len(got) + 1 /\ m \in 1 - 1 .. Len(got) /\ Len(got) \in m .. Len(got)
        BY <1>4, <1>6
      <4> QED
        BY <1>1, <4>1, ConcatAdjacentSubSeq
    <3>2. SubSeq(got, 1, Len(got)) = got
      BY <1>1, SubSeqFull
    <3> QED
      BY <3>1, <3>2 DEF Drop
  <2>3. batch' = SubSeq(got, 1, m)
    BY <1>3, <1>8
  <2>4. Stream' = SubSeq(got, 1, m) \o Drop(got, m) \o <<>>
    BY <1>3, <1>6, <2>3 DEF Stream
  <2>5. Stream' = got
    BY <1>1, <1>7, <2>1, <2>2, <2>4, ConcatProperties, ConcatEmptySeq
  <2> QED
    BY <1>2, <1>8, <2>5
<1>9. CASE ignoreFS
  <2>1. batch' = <<>>
    BY <1>1, <1>3, <1>9
  <2>2. Stream' = Drop(got, m)
    <3>1. Stream' = <<>> \o Drop(got, m) \o <<>>
      BY <1>3, <1>6, <2>1 DEF Stream
    <3> QED
      BY <1>1, <1>7, <3>1, ConcatEmptySeq
  <2>3. ASSUME NEW i \in 1 .. m, got[i].by = "R" PROVE got[i].name \in excused'
    <3>1. \A j \in 1 .. m : got[j] \in EventType
      BY <1>1, <1>6
    <3> DEFINE p == SubSeq(got, 1, m)
    <3>2. p \in Seq(EventType) /\ Len(p) = m /\ \A j \in 1 .. m : p[j] = got[j]
      <4>1. /\ p \in Seq(EventType) /\ Len(p) = IF 1 <= m THEN m - 1 + 1 ELSE 0
            /\ \A j \in 1 .. m - 1 + 1 : p[j] = got[1 + j - 1]
        BY <1>6, <3>1, SubSeqProperties
      <4> HIDE DEF p
      <4> QED
        BY <1>4, <1>6, <4>1
    <3>3. excused' = excused \cup {p[j].name : j \in {k \in DOMAIN p : p[k].by = "R"}}
      BY <1>3, <1>9
    <3> HIDE DEF p
    <3>4. i \in DOMAIN p /\ p[i] = got[i]
      BY <2>3, <3>2
    <3> QED
      BY <2>3, <3>3, <3>4
  <2> QED
    BY <1>2, <1>6, <1>9, <2>1, <2>2, <2>3
<1> QED
  BY <1>8, <1>9

LEMMA PairedKept ==
  ASSUME NEW X, NEW p \in Seq(X), Paired(p)
  PROVE  /\ \A k \in 0 .. Len(p) : Paired(Drop(p, k))
         /\ \A q \in Seq(X) : Paired(q) => Paired(p \o q)
<1>1. ASSUME NEW k \in 0 .. Len(p) PROVE Paired(Drop(p, k))
  <2> DEFINE r == Drop(p, k)
  <2>1. /\ DOMAIN r = 1 .. Len(p) - k /\ Len(p) \in Nat /\ k \in Nat /\ DOMAIN p = 1 .. Len(p)
        /\ \A i \in 1 .. Len(p) - k : r[i] = p[i + k] /\ i + k \in DOMAIN p
    BY Dropped
  <2> HIDE DEF r
  <2>2. ASSUME NEW i \in DOMAIN r, r[i].kind = "create"
        PROVE  i + 1 \in DOMAIN r /\ r[i + 1].kind = "name"
    <3>1. /\ i + k \in DOMAIN p /\ p[i + k].kind = "create"
      BY <2>1, <2>2
    <3>2. (i + k) + 1 \in DOMAIN p /\ p[(i + k) + 1].kind = "name"
      BY <3>1 DEF Paired
    <3>3. i + 1 \in 1 .. Len(p) - k /\ (i + 1) + k = (i + k) + 1
      BY <2>1, <2>2, <3>2
    <3> QED
      BY <2>1, <3>2, <3>3
  <2>3. Paired(r)
    BY <2>2 DEF Paired
  <2> QED
    BY <2>3 DEF r
<1>2. ASSUME NEW q \in Seq(X), Paired(q) PROVE Paired(p \o q)
  <2> DEFINE r == p \o q
  <2>1. /\ DOMAIN r = 1 .. Len(p) + Len(q) /\ Len(p) \in Nat /\ Len(q) \in Nat
        /\ DOMAIN p = 1 .. Len(p) /\ DOMAIN q = 1 .. Len(q)
        /\ \A i \in 1 .. Len(p) + Len(q) : r[i] = IF i <= Len(p) THEN p[i] ELSE q[i - Len(p)]
    BY ConcatProperties, LenProperties
  <2> HIDE DEF r
  <2>2. ASSUME NEW i \in DOMAIN r, r[i].kind = "create"
        PROVE  i + 1 \in DOMAIN r /\ r[i + 1].kind = "name"
    <3>1. CASE i <= Len(p)
      <4>1. i \in DOMAIN p /\ p[i].kind = "create"
        BY <2>1, <2>2, <3>1
      <4>2. i + 1 \in DOMAIN p /\ p[i + 1].kind = "name"
        BY <4>1 DEF Paired
      <4>3. i + 1 \in 1 .. Len(p) + Len(q) /\ i + 1 <= Len(p)
        BY <2>1, <4>2
      <4> QED
        BY <2>1, <4>2, <4>3
    <3>2. CASE ~(i <= Len(p))
      <4>1. i - Len(p) \in DOMAIN q /\ q[i - Len(p)].kind = "create"
        BY <2>1, <2>2, <3>2
      <4>2. (i - Len(p)) + 1 \in DOMAIN q /\ q[(i - Len(p)) + 1].kind = "name"
        BY <1>2, <4>1 DEF Paired
      <4>3. /\ i + 1 \in 1 .. Len(p) + Len(q) /\ ~(i + 1 <= Len(p))
            /\ (i + 1) - Len(p) = (i - Len(p)) + 1
        BY <2>1, <2>2, <3>2, <4>2
      <4> QED
        BY <2>1, <4>2, <4>3
    <3> QED
      BY <3>1, <3>2
  <2>3. Paired(r)
    BY <2>2 DEF Paired
  <2> QED
    BY <2>3 DEF r
<1> QED
  BY <1>1, <1>2

\* What a step does to the stream: nothing, a branch takes its event, a read drops
\* the events it ignores and a long name those that are skipped, or a change of the
\* directory adds its events.
TookEvent(k) ==
  /\ pc = "inotify" /\ batch # <<>> /\ Stream' = Drop(Stream, k) /\ k \in 0 .. Len(Stream)
  /\ 1 \in DOMAIN Stream /\ Stream[1] = Head(batch)
  /\ k = 2 => Head(batch).kind = "create"
  /\ Head(batch).kind = "deleteSelf" => DeleteSelf
Ignored(k) ==
  /\ handleInotifyEvent \/ CutLongName
  /\ k \in 0 .. Len(Stream) /\ Stream' = Drop(Stream, k)
  /\ \A i \in 1 .. k : Stream[i].by = "R" => Stream[i].name \in excused'
Queued(q) == Stream' = Stream \o q /\ Paired(q)

LEMMA QueueGrows ==
  ASSUME Typed, NEW q \in Seq(EventType), kernelQ' = kernelQ \o q, UNCHANGED <<input, batch>>
  PROVE  Stream' = Stream \o q
<1>1. batch \in Seq(EventType) /\ input \in Seq(EventType) /\ kernelQ \in Seq(EventType)
      /\ batch \o input \in Seq(EventType)
  BY ConcatProperties DEF Typed, QueuesTyped
<1> DEFINE p == batch \o input
<1>2. Stream' = p \o (kernelQ \o q) /\ Stream = p \o kernelQ /\ p \in Seq(EventType)
  BY <1>1 DEF Stream
<1> HIDE DEF p
<1>3. p \o (kernelQ \o q) = (p \o kernelQ) \o q
  BY <1>1, <1>2
<1> QED
  BY <1>2, <1>3

LEMMA PairedWrite ==
  ASSUME Typed, NEW n \in Names, NEW by \in {"R", "self"}, UNCHANGED <<input, batch>>,
         kernelQ' = kernelQ \o
           (CASE n \notin Present -> CreateUnits(n, by)
              [] n \in Present /\ watchOf[n] # 0 -> <<Unit("closeWrite", n, watchOf[n], by)>>
              [] OTHER -> <<>>)
  PROVE  \E q \in Seq(EventType) : Queued(q) /\ About(q, n, by)
<1> DEFINE q == CASE n \notin Present -> CreateUnits(n, by)
                  [] n \in Present /\ watchOf[n] # 0 -> <<Unit("closeWrite", n, watchOf[n], by)>>
                  [] OTHER -> <<>>
<1>1. q \in Seq(EventType) /\ About(q, n, by)
  <2>1. CASE n \notin Present
    BY <2>1, UnitTypes, CreateUnitsAbout
  <2>2. CASE n \in Present /\ watchOf[n] # 0
    <3> DEFINE u == Unit("closeWrite", n, watchOf[n], by)
    <3>1. <<u>> \in Seq(EventType) /\ u.name = n /\ u.by = by /\ u.wd = watchOf[n]
      BY UnitTypes DEF Unit
    <3>2. q = <<u>>
      BY <2>2
    <3> HIDE DEF u, q
    <3>3. Range(<<u>>) = {u}
      BY DEF Range
    <3>4. About(<<u>>, n, by)
      BY <2>2, <3>1, <3>3 DEF About
    <3> QED
      BY <3>1, <3>2, <3>4
  <2>3. CASE n \in Present /\ watchOf[n] = 0
    <3>1. q = <<>>
      BY <2>3
    <3> HIDE DEF q
    <3> QED
      BY <3>1 DEF About, Range
  <2> QED
    BY <2>1, <2>2, <2>3
<1>2. Paired(q)
  <2>1. CASE n \notin Present /\ watchOf[Dir] # 0
    <3>1. q = <<Unit("create", n, 0, by), Unit("name", n, 0, by)>>
      BY <2>1 DEF CreateUnits
    <3> QED
      BY <3>1 DEF Paired, Unit
  <2>2. CASE n \in Present /\ watchOf[n] # 0
    <3>1. q = <<Unit("closeWrite", n, watchOf[n], by)>>
      BY <2>2
    <3> QED
      BY <3>1 DEF Paired, Unit
  <2>3. CASE (n \notin Present /\ watchOf[Dir] = 0) \/ (n \in Present /\ watchOf[n] = 0)
    <3>1. q = <<>>
      BY <2>3 DEF CreateUnits
    <3> QED
      BY <3>1 DEF Paired
  <2> QED
    BY <2>1, <2>2, <2>3
<1> HIDE DEF q
<1>3. Stream' = Stream \o q
  <2>1. kernelQ' = kernelQ \o q
    BY DEF q
  <2> QED
    BY <1>1, <2>1, QueueGrows
<1> QED
  BY <1>1, <1>2, <1>3 DEF Queued

LEMMA LongNameTakes ==
  ASSUME Typed, CutLongName PROVE \E k \in Nat : Ignored(k)
<1>0. batch \in Seq(EventType) /\ Len(batch) \in Nat /\ batch # <<>>
  BY DEF Typed, QueuesTyped, CutLongName, Event
<1> DEFINE rest == input \o kernelQ
<1>1. rest \in Seq(EventType) /\ Stream = batch \o rest
  <2>1. /\ batch \in Seq(EventType) /\ input \in Seq(EventType) /\ kernelQ \in Seq(EventType)
    BY DEF Typed, QueuesTyped
  <2> QED
    BY <2>1, ConcatProperties, Joined DEF Stream
<1> HIDE DEF rest
<1>2. PICK k \in 1 .. Len(batch) :
        /\ Skip(k)
        /\ excused' = excused \cup {batch[i].name : i \in {j \in 1 .. k : batch[j].by = "R"}}
  BY DEF CutLongName
<1>3. UNCHANGED <<kernelQ, input>>
  BY DEF CutLongName
<1>4. Stream' = Drop(Stream, k) /\ k \in 0 .. Len(Stream) /\ k \in Nat
  BY <1>0, <1>2, <1>3, StreamSkip
<1>5. ASSUME NEW i \in 1 .. k PROVE Stream[i] = batch[i]
  BY <1>0, <1>1, ConcatProperties
<1> QED
  BY <1>2, <1>4, <1>5 DEF Ignored

LEMMA StreamSteps ==
  ASSUME Typed, QueueInv, [Next]_vars
  PROVE  \/ Stream' = Stream
         \/ \E k \in {1, 2} : TookEvent(k)
         \/ \E k \in Nat : Ignored(k)
         \/ \E q \in Seq(EventType) : Queued(q)
<1> DEFINE G == \/ Stream' = Stream
                \/ \E k \in {1, 2} : TookEvent(k)
                \/ \E k \in Nat : Ignored(k)
                \/ \E q \in Seq(EventType) : Queued(q)
<1>1. CASE UNCHANGED fsQueues
  BY <1>1 DEF fsQueues, Stream
<1>2. ASSUME NEW k \in {1, 2}, pc = "inotify", batch # <<>>, Skip(k), k <= Len(batch),
             UNCHANGED <<kernelQ, input>>, k = 2 => Head(batch).kind = "create",
             Head(batch).kind = "deleteSelf" => DeleteSelf
      PROVE  TookEvent(k)
  BY <1>2, StreamSkip DEF TookEvent
<1>3. CASE Startup
  BY <1>1, <1>3 DEF Startup, connect, setupInotify, listen
<1>4. CASE R
  <2>1. CASE StartScript \/ EndScript \/ \E n \in Names : findOrAddFile(n)
    BY <1>1, <2>1 DEF StartScript, EndScript, findOrAddFile
  <2>2. ASSUME NEW n \in Names, RWrite(n) PROVE G
    <3>1. \E q \in Seq(EventType) : Queued(q) /\ About(q, n, "R")
      BY <2>2, PairedWrite DEF RWrite
    <3> QED
      BY <3>1
  <2>3. ASSUME NEW n \in Names, RRemove(n) PROVE G
    <3> DEFINE u == Unit("deleteSelf", n, watchOf[n], "R")
    <3>1. /\ UNCHANGED <<input, batch>>
          /\ kernelQ' = IF watchOf[n] = 0 THEN kernelQ ELSE Append(kernelQ, u)
      BY <2>3 DEF RRemove
    <3>2. u.kind = "deleteSelf" /\ u \in EventType /\ kernelQ \in Seq(EventType)
      BY DEF Unit, EventType, Typed, OutsideTyped, QueuesTyped
    <3> HIDE DEF u
    <3>3. CASE watchOf[n] = 0
      BY <3>1, <3>3 DEF Stream
    <3>4. CASE watchOf[n] # 0
      <4>1. kernelQ' = kernelQ \o <<u>> /\ <<u>> \in Seq(EventType)
        BY <3>1, <3>2, <3>4
      <4>2. Paired(<<u>>)
        BY <3>2 DEF Paired
      <4>3. Queued(<<u>>)
        BY <3>1, <4>1, <4>2, QueueGrows DEF Queued
      <4> QED
        BY <4>1, <4>3
    <3> QED
      BY <3>3, <3>4
  <2> QED
    BY <1>4, <2>1, <2>2, <2>3 DEF R
<1>5. CASE Others
  BY <1>1, <1>5 DEF Others, ForeignInsert, ForeignUpdate, ForeignDelete, Foreign
<1>6. CASE Inotify
  <2>0. batch \in Seq(EventType) /\ Len(batch) \in Nat
    BY DEF Typed, QueuesTyped
  <2>1. CASE handleInotifyEvent
    <3>1. CASE ignoreFS
      <4>1. PICK k \in 0 .. Len(Stream) :
              /\ Stream' = Drop(Stream, k)
              /\ \A i \in 1 .. k : Stream[i].by = "R" => Stream[i].name \in excused'
        BY <2>1, <3>1, StreamRead
      <4>2. k \in Nat
        BY <4>1
      <4> QED
        BY <2>1, <4>1, <4>2 DEF Ignored
    <3> QED
      BY <2>1, <3>1, StreamRead
  <2>2. CASE NoEntry \/ EndBatch
    BY <1>1, <2>2 DEF NoEntry, EndBatch
  <2>3. CASE CutName
    <3>1. 1 <= Len(batch)
      BY <2>0, <2>3 DEF CutName, Event
    <3> QED
      BY <1>2, <2>3, <3>1 DEF CutName, Event
  <2>4. CASE CreateSkipped
    <3> DEFINE k == IF Len(batch) = 1 THEN 1 ELSE 2
    <3>1. /\ k \in {1, 2} /\ k <= Len(batch) /\ batch # <<>> /\ Skip(k)
          /\ UNCHANGED <<kernelQ, input>>
      BY <2>0, <2>4 DEF CreateSkipped, Event
    <3> HIDE DEF k
    <3> QED
      BY <1>2, <2>4, <3>1 DEF CreateSkipped, Event
  <2>8. CASE CutLongName
    BY <2>8, LongNameTakes
  <2>9. CASE CreateFailed
    <3> DEFINE k == IF Len(batch) = 1 THEN 1 ELSE 2
    <3>1. /\ k \in {1, 2} /\ k <= Len(batch) /\ batch # <<>> /\ Skip(k)
          /\ UNCHANGED <<kernelQ, input>>
      BY <2>0, <2>9 DEF CreateFailed, Event
    <3> HIDE DEF k
    <3> QED
      BY <1>2, <2>9, <3>1 DEF CreateFailed, Event
  <2>5. CASE CreateInserted
    <3>1. 2 <= Len(batch)
      BY <2>0, <2>5 DEF CreateInserted
    <3> QED
      BY <1>2, <2>5, <3>1 DEF CreateInserted, Event
  <2>6. CASE CloseWrite
    <3>1. 1 <= Len(batch)
      BY <2>0, <2>6 DEF CloseWrite, Event
    <3> QED
      BY <1>2, <2>6, <3>1 DEF CloseWrite, Event
  <2>7. CASE DeleteSelf
    <3>1. 1 <= Len(batch)
      BY <2>0, <2>7 DEF DeleteSelf, Event
    <3> QED
      BY <1>2, <2>7, <3>1 DEF DeleteSelf, Event
  <2> QED
    BY <1>6, <2>1, <2>2, <2>3, <2>4, <2>5, <2>6, <2>7, <2>8, <2>9 DEF Inotify
<1>7. CASE Notifications
  <2>1. CASE handleDBNotifications \/ noteUnknown \/ noteDelete \/ EndNotes
    BY <1>1, <2>1 DEF handleDBNotifications, noteUnknown, noteDelete, EndNotes
  <2>2. CASE noteInsert \/ noteUpdate
    <3>1. /\ UNCHANGED <<input, batch>>
          /\ \/ kernelQ' = kernelQ
             \/ noted \in DOMAIN rows /\ writeFile(rows[noted].name, rows[noted].data)
      <4>1. CASE noteUpdate
        BY <4>1 DEF noteUpdate
      <4>2. CASE noteInsert
        <5>1. CASE noted \in DOMAIN rows
          BY <4>2, <5>1 DEF noteInsert
        <5>2. CASE noted \notin DOMAIN rows
          BY <4>2, <5>2 DEF noteInsert
        <5> QED
          BY <5>1, <5>2
      <4> QED
        BY <2>2, <4>1, <4>2
    <3>2. CASE kernelQ' = kernelQ
      BY <3>1, <3>2 DEF Stream
    <3>3. CASE noted \in DOMAIN rows /\ writeFile(rows[noted].name, rows[noted].data)
      <4>1. rows[noted].name \in Names
        BY <3>3 DEF Typed, OutsideTyped, RowsTyped, RowType
      <4>2. \E q \in Seq(EventType) : Queued(q) /\ About(q, rows[noted].name, "self")
        BY <3>1, <3>3, <4>1, PairedWrite DEF writeFile
      <4> QED
        BY <4>2
    <3> QED
      BY <3>1, <3>2, <3>3
  <2> QED
    BY <1>7, <2>1, <2>2 DEF Notifications
<1>8. CASE handleIgnoreFSNotesOff \/ UNCHANGED vars
  BY <1>1, <1>8 DEF handleIgnoreFSNotesOff, vars
<1> QED
  BY <1>3, <1>4, <1>5, <1>6, <1>7, <1>8 DEF Next

\* Only a batch that is being processed is not empty.
LEMMA StepBatch ==
  ASSUME QueueInv, [Next]_vars, pc' \notin {"inotify", "crashed"} PROVE batch' = <<>>
<1>1. CASE UNCHANGED fsQueues /\ pc \notin {"inotify", "crashed"}
  BY <1>1 DEF fsQueues, QueueInv
<1>2. CASE Startup
  BY <1>1, <1>2 DEF Startup, connect, setupInotify, listen
<1>3. CASE R
  BY <1>1, <1>3 DEF R, StartScript, EndScript, RWrite, RRemove, findOrAddFile, session, QueueInv
<1>4. CASE Others
  BY <1>1, <1>4 DEF Others, ForeignInsert, ForeignUpdate, ForeignDelete, Foreign, session
<1>5. CASE Inotify
  <2>1. CASE handleInotifyEvent
    BY <2>1 DEF handleInotifyEvent, QueueInv
  <2>2. CASE CutName \/ CreateSkipped \/ CreateFailed \/ CreateInserted \/ CloseWrite \/ DeleteSelf
    BY <2>2 DEF CutName, CreateSkipped, CreateFailed, CreateInserted, CloseWrite, DeleteSelf, Event,
                session
  <2>4. CASE CutLongName
    BY <2>4 DEF CutLongName, Event
  <2>3. CASE NoEntry \/ EndBatch
    BY <2>3 DEF NoEntry, EndBatch, fsQueues
  <2> QED
    BY <1>5, <2>1, <2>2, <2>3, <2>4 DEF Inotify
<1>6. CASE Notifications
  BY <1>1, <1>6 DEF Notifications, handleDBNotifications, noteUnknown, noteDelete, noteInsert,
     noteUpdate, EndNotes, Noted, session, QueueInv
<1>7. CASE handleIgnoreFSNotesOff \/ UNCHANGED vars
  BY <1>1, <1>7 DEF handleIgnoreFSNotesOff, vars, session
<1> QED
  BY <1>2, <1>3, <1>4, <1>5, <1>6, <1>7 DEF Next

LEMMA StepQueue == Typed /\ QueueInv /\ [Next]_vars => QueueInv'
<1> SUFFICES ASSUME Typed, QueueInv, [Next]_vars PROVE QueueInv'
  OBVIOUS
<1>1. Paired(Stream) /\ Stream \in Seq(EventType)
  BY StreamRange DEF QueueInv
<1>2. Paired(Stream')
  <2>1. CASE \E k \in 0 .. Len(Stream) : Stream' = Drop(Stream, k)
    BY <1>1, <2>1, PairedKept
  <2>2. CASE \E q \in Seq(EventType) : Queued(q)
    BY <1>1, <2>2, PairedKept DEF Queued
  <2>3. CASE Stream' = Stream
    BY <1>1, <2>3
  <2>4. CASE (\E k \in {1, 2} : TookEvent(k)) \/ \E k \in Nat : Ignored(k)
    BY <2>1, <2>4 DEF TookEvent, Ignored
  <2> QED
    BY <2>2, <2>3, <2>4, StreamSteps
<1>3. Paired(Stream)'
  BY <1>2 DEF Paired
<1> QED
  BY <1>3, StepBatch DEF QueueInv

LEMMA AlwaysQueue == Spec => []QueueInv
<1>1. Init => QueueInv
  <2> SUFFICES ASSUME Init PROVE QueueInv
    OBVIOUS
  <2>1. batch = <<>> /\ Stream = <<>>
    BY DEF Init, Stream
  <2> QED
    BY <2>1 DEF QueueInv, Paired
<1> QED
  BY <1>1, StepQueue, AlwaysTyped, PTL DEF Spec

\* A deletion by R stays in the stream until its branch or until it is lost.
LEMMA DeletionKept ==
  ASSUME Typed, Typed', QueueInv, [Next]_vars,
         NEW u \in Happened, u.kind = "deleteSelf", u.by = "R"
  PROVE  u \in Happened' \/ u.name \in excused' \/ (DeleteSelf /\ u = Head(batch))
<1>1. /\ Stream \in Seq(EventType) /\ Stream' \in Seq(EventType) /\ Paired(Stream)
      /\ u \in Range(Stream) /\ Range(Stream') = Happened'
  BY StreamRange DEF QueueInv
<1>2. CASE Stream' = Stream
  BY <1>1, <1>2
<1>3. ASSUME NEW q \in Seq(EventType), Queued(q) PROVE u \in Happened'
  <2>1. Range(Stream \o q) = Range(Stream) \cup Range(q)
    BY <1>1, RangeFacts
  <2> QED
    BY <1>1, <1>3, <2>1 DEF Queued
<1>4. ASSUME NEW k, Ignored(k), u \notin Happened' PROVE u.name \in excused'
  <2>1. PICK i \in 1 .. k : u = Stream[i]
    BY <1>1, <1>4, DroppedRange DEF Ignored
  <2> QED
    BY <1>4, <2>1 DEF Ignored
<1>5. ASSUME NEW k \in {1, 2}, TookEvent(k), u \notin Happened'
      PROVE  DeleteSelf /\ u = Head(batch)
  <2>1. PICK i \in 1 .. k : u = Stream[i]
    BY <1>1, <1>5, DroppedRange DEF TookEvent
  <2>2. i = 1
    <3>1. CASE i = 2
      <4>1. k = 2 /\ 1 \in DOMAIN Stream /\ Stream[1].kind = "create"
        BY <1>5, <2>1, <3>1 DEF TookEvent
      <4>2. Stream[1 + 1].kind = "name"
        BY <1>1, <4>1 DEF Paired
      <4> QED
        BY <2>1, <3>1, <4>2
    <3> QED
      BY <2>1, <3>1
  <2>3. u = Head(batch) /\ batch # <<>> /\ pc = "inotify"
    BY <1>5, <2>1, <2>2 DEF TookEvent
  <2> QED
    BY <1>5, <2>3 DEF TookEvent
<1> QED
  BY <1>2, <1>3, <1>4, <1>5, StreamSteps

-----------------------------------------------------------------------------
(* A watch leads back to its file. *)

Deleted(H, n, w) ==
  \E u \in H : u.kind = "deleteSelf" /\ u.by = "R" /\ u.name = n /\ u.wd = w
EntryOf(id) == /\ filesById[id].wd # 0 /\ filesById[id].wd \in DOMAIN byWd
               /\ byWd[filesById[id].wd] = id
Back(id) ==
  LET f == filesById[id]
  IN \/ f.name \in excused \/ SaidOf(Said, id, {"i", "d"}) \/ f.wd \in clobbered
     \/ EntryOf(id) /\ (watchOf[f.name] = f.wd \/ Deleted(Happened, f.name, f.wd))

\* From setupInotify on, unless "listen" failed.
Watching == pc = "listen" \/ (pc \notin {"load", "setup"} /\ listening)
BackInv == Watching => \A id \in Known : Back(id)

Everything == Typed /\ CacheInv /\ NotesInv /\ FilesUnique /\ WatchesApart /\ QueueInv /\ BackInv

LEMMA BackKept ==
  ASSUME Typed, Watching, [Next]_vars, NEW id \in Known, Back(id),
         filesById'[id].name = filesById[id].name, filesById'[id].wd = filesById[id].wd,
         NEW n, NEW w, n = filesById[id].name, w = filesById[id].wd,
         SaidOf(Said, id, {"i", "d"}) => SaidOf(Said', id, {"i", "d"}),
         EntryOf(id) => EntryOf(id)' \/ w \in clobbered',
         EntryOf(id) /\ watchOf[n] = w =>
           watchOf'[n] = w \/ Deleted(Happened', n, w) \/ n \in excused' \/ w \in clobbered',
         EntryOf(id) /\ Deleted(Happened, n, w) => Deleted(Happened', n, w) \/ n \in excused'
  PROVE  Back(id)'
<1>1. excused \subseteq excused' /\ clobbered \subseteq clobbered'
  BY ExcusedGrows, HistoryGrows DEF Watching, connect
<1>2. Back(id)' <=> \/ filesById'[id].name \in excused' \/ SaidOf(Said', id, {"i", "d"})
                    \/ filesById'[id].wd \in clobbered'
                    \/ /\ EntryOf(id)'
                       /\ \/ watchOf'[filesById'[id].name] = filesById'[id].wd
                          \/ Deleted(Happened', filesById'[id].name, filesById'[id].wd)
  BY DEF Back, SaidOf, Deleted
<1>3. Back(id) <=> \/ n \in excused \/ SaidOf(Said, id, {"i", "d"}) \/ w \in clobbered
                   \/ EntryOf(id) /\ (watchOf[n] = w \/ Deleted(Happened, n, w))
  BY DEF Back
<1> QED
  BY <1>1, <1>2, <1>3

LEMMA DeletedKept ==
  ASSUME Typed, Typed', QueueInv, [Next]_vars, ~DeleteSelf, NEW n, NEW w, Deleted(Happened, n, w)
  PROVE  Deleted(Happened', n, w) \/ n \in excused'
<1>1. PICK u \in Happened : u.kind = "deleteSelf" /\ u.by = "R" /\ u.name = n /\ u.wd = w
  BY DEF Deleted
<1>2. u \in Happened' \/ n \in excused'
  BY <1>1, DeletionKept
<1> QED
  BY <1>1, <1>2 DEF Deleted

\* A step that leaves the file's watch and entry alone.
LEMMA BackQuiet ==
  ASSUME Everything, Typed', Watching, [Next]_vars, ~DeleteSelf, UNCHANGED <<watchOf, byWd>>,
         NEW id \in Known, filesById'[id].name = filesById[id].name,
         filesById'[id].wd = filesById[id].wd,
         \A m \in Said : m.id = id /\ m.op \in {"i", "d"} => m \in Said'
  PROVE  Back(id)'
<1> DEFINE n == filesById[id].name
           w == filesById[id].wd
<1>1. Back(id) /\ Typed /\ QueueInv
  BY DEF Everything, BackInv
<1>2. SaidOf(Said, id, {"i", "d"}) => SaidOf(Said', id, {"i", "d"})
  BY DEF SaidOf
<1>3. EntryOf(id) => EntryOf(id)'
  BY DEF EntryOf
<1>4. Deleted(Happened, n, w) => Deleted(Happened', n, w) \/ n \in excused'
  BY <1>1, DeletedKept
<1>5. watchOf'[n] = watchOf[n]
  OBVIOUS
<1> QED
  BY <1>1, <1>2, <1>3, <1>4, <1>5, BackKept

\* Watching a file gives it a watch that leads back to it.
LEMMA BackWatched ==
  ASSUME Typed, WatchesApart, NEW files, FilesTyped(files), NEW id \in DOMAIN files,
         watchFile(id, files)
  PROVE  Back(id)'
<1> DEFINE n == files[id].name
<1>1. PICK wd \in Nat \ {0} : Gives(files, id, n, wd)
  BY WatchGiven
<1>2. n \in Names /\ n \in Dirs /\ watchOf \in [Dirs -> Nat]
  BY DEF FilesTyped, FileInfo, Typed, OutsideTyped, Dirs
<1>3. filesById'[id].wd = wd /\ filesById'[id].name = n
  BY <1>1 DEF Gives, FilesTyped, FileInfo
<1> HIDE DEF n
<1>4. watchOf'[n] = wd /\ wd \in DOMAIN byWd' /\ byWd'[wd] = id
  BY <1>1, <1>2 DEF Gives, With
<1> QED
  BY <1>3, <1>4 DEF Back, EntryOf

\* Watching another file leaves this one's watch alone.
LEMMA BackBeside ==
  ASSUME Everything, Typed', Watching, [Next]_vars, ~DeleteSelf,
         NEW files, FilesTyped(files), NEW jd \in DOMAIN files, watchFile(jd, files),
         NEW id \in Known, id # jd, id \in DOMAIN files, files[id] = filesById[id],
         filesById[id].name # files[jd].name,
         \A m \in Said : m.id = id /\ m.op \in {"i", "d"} => m \in Said'
  PROVE  Back(id)'
<1> DEFINE n == filesById[id].name
           w == filesById[id].wd
           k == files[jd].name
<1>1. Back(id) /\ Typed /\ QueueInv /\ WatchesApart
  BY DEF Everything, BackInv
<1>2. PICK wd \in Nat \ {0} : Gives(files, jd, k, wd)
  BY <1>1, WatchGiven
<1>3. k \in Dirs /\ n \in Dirs /\ watchOf \in [Dirs -> Nat] /\ w \in Nat /\ nextWd \in Nat
  BY <1>1 DEF FilesTyped, FileInfo, Typed, TablesTyped, OutsideTyped, Dirs, Known
<1>4. filesById'[id] = files[id]
  BY <1>2 DEF Gives, FilesTyped
<1>5. w # wd
  <2>1. CASE wd = nextWd
    BY <1>1, <1>3, <2>1 DEF WatchesApart, Apart, Known
  <2>2. CASE wd = watchOf[k]
    BY <1>1, <1>2, <1>3, <2>2 DEF WatchesApart, Apart, Known
  <2> QED
    BY <1>2, <2>1, <2>2 DEF Gives
<1> HIDE DEF n, w, k
<1>6. watchOf'[n] = watchOf[n]
  BY <1>2, <1>3 DEF Gives, n, k
<1>7. w \in DOMAIN byWd => w \in DOMAIN byWd' /\ byWd'[w] = byWd[w]
  BY <1>2, <1>5 DEF Gives, With
<1>8. SaidOf(Said, id, {"i", "d"}) => SaidOf(Said', id, {"i", "d"})
  BY DEF SaidOf
<1>9. EntryOf(id) => EntryOf(id)'
  BY <1>4, <1>7 DEF EntryOf, w
<1>10. Deleted(Happened, n, w) => Deleted(Happened', n, w) \/ n \in excused'
  BY <1>1, DeletedKept
<1> QED
  BY <1>1, <1>4, <1>6, <1>8, <1>9, <1>10, BackKept DEF n, w

\* A file keeps its watch and its entry, and what was said of it.
KeepsAll(id) ==
  /\ filesById'[id].name = filesById[id].name /\ filesById'[id].wd = filesById[id].wd
  /\ \A m \in Said : m.id = id /\ m.op \in {"i", "d"} => m \in Said'

LEMMA BackSame ==
  ASSUME Everything, Typed', Watching, [Next]_vars, ~DeleteSelf, UNCHANGED <<watchOf, byWd>>,
         \A id \in Known' : id \in Known /\ KeepsAll(id)
  PROVE  BackInv'
<1>1. \A id \in Known' : Back(id)'
  BY BackQuiet DEF KeepsAll
<1> QED
  BY <1>1 DEF BackInv

\* What the session's own insertion and another file's watch do.
LEMMA BackInserted ==
  ASSUME Everything, Typed', Watching, [Next]_vars, ~DeleteSelf, listening,
         NEW n \in Names \ KnownNames, insertDBFile(n), Said \subseteq Said',
         \/ filesById' = newFile(n) /\ UNCHANGED <<watchOf, byWd>>
         \/ watchFile(nextId, newFile(n))
  PROVE  BackInv'
<1> DEFINE files == newFile(n)
<1>1. Typed /\ CacheInv /\ WatchesApart
  BY DEF Everything
<1>2. /\ nextId \notin Known /\ nextId \in Nat /\ DOMAIN files = Known \cup {nextId}
      /\ files[nextId].name = n /\ \A id \in Known : files[id] = filesById[id]
  BY <1>1, NewTable
<1>3. FilesTyped(files)
  BY <1>1, <1>2, InsertTypes DEF insertDBFile
<1>4. (filesById' = files /\ UNCHANGED <<watchOf, byWd>>) \/ watchFile(nextId, files)
  OBVIOUS
<1> HIDE DEF files
<1>5. \A id \in Known : filesById[id].name # n
  BY DEF KnownNames
<1>6. ASSUME NEW id \in Known PROVE Back(id)'
  BY <1>2, <1>3, <1>4, <1>5, <1>6, BackQuiet, BackBeside
<1>7. ASSUME NEW id, id = nextId PROVE Back(id)'
  <2> DEFINE m == [op |-> "i", id |-> nextId, name |-> n]
  <2>1. <<m>> \in Seq(Note) /\ Absorb(<<m>>)
    BY <1>2, NoteTypes DEF insertDBFile
  <2>2. m.id = nextId /\ m.op = "i"
    OBVIOUS
  <2> HIDE DEF m
  <2>3. m \in Said'
    <3>1. Range(<<m>>) = {m}
      BY DEF Range
    <3> QED
      BY <1>1, <2>1, <3>1, AbsorbSays
  <2> QED
    BY <1>7, <2>2, <2>3 DEF Back, SaidOf
<1>8. Known' = Known \cup {nextId}
  BY <1>2, <1>3, <1>4, WatchedTable DEF Known
<1> QED
  BY <1>6, <1>7, <1>8 DEF BackInv

LEMMA WatchingBefore == ASSUME [Next]_vars, Watching' PROVE Watching \/ setupInotify
<1>1. CASE UNCHANGED <<listening, pc>>
  BY <1>1 DEF Watching
<1>2. CASE Startup
  BY <1>2 DEF Startup, connect, setupInotify, listen, Watching
<1>3. CASE R
  BY <1>3 DEF R, StartScript, EndScript, RWrite, RRemove, findOrAddFile, session, Watching
<1>4. CASE Others
  BY <1>4 DEF Others, ForeignInsert, ForeignUpdate, ForeignDelete, Foreign, session, Watching
<1>5. CASE Inotify
  BY <1>5 DEF Inotify, handleInotifyEvent, CutName, CutLongName, CreateSkipped, CreateFailed,
      CreateInserted, NoEntry,
     CloseWrite, DeleteSelf, EndBatch, Event, session, Watching
<1>6. CASE Notifications
  BY <1>6 DEF Notifications, handleDBNotifications, noteUnknown, noteDelete, noteInsert,
     noteUpdate, EndNotes, Noted, session, Watching
<1>7. CASE handleIgnoreFSNotesOff \/ UNCHANGED vars
  BY <1>7 DEF handleIgnoreFSNotesOff, vars, session, Watching
<1> QED
  BY <1>2, <1>3, <1>4, <1>5, <1>6, <1>7 DEF Next

LEMMA SetUpBack == ASSUME Everything, setupInotify PROVE BackInv'
<1>1. PICK rank : SetUp(rank)
  BY SetUpGives DEF Everything
<1>2. excused' = excused /\ \A id \in Known : filesById[id].name \in Names
  BY DEF setupInotify, history, Everything, Typed, TablesTyped, FilesTyped, FileInfo, Known
<1>3. ASSUME NEW id \in Known' PROVE Back(id)'
  <2> DEFINE n == filesById[id].name
  <2>1. /\ id \in Known /\ filesById'[id].wd = rank[id] /\ filesById'[id].name = n
        /\ rank[id] # 0 /\ rank[id] \in DOMAIN byWd' /\ byWd'[rank[id]] = id
    BY <1>1, <1>3 DEF SetUp
  <2>2. PICK jd \in Known : filesById[jd].name = n /\ watchOf'[n] = rank[jd]
    BY <1>1, <1>2, <2>1 DEF SetUp, KnownNames
  <2>3. jd = id \/ n \in excused'
    BY <1>2, <2>1, <2>2 DEF Everything, FilesUnique
  <2> QED
    BY <2>1, <2>2, <2>3 DEF Back, EntryOf
<1> QED
  BY <1>3 DEF BackInv

LEMMA RBack ==
  ASSUME Everything, Typed', Watching, [Next]_vars, R PROVE BackInv'
<1>0. pc = "script" \/ pc = "idle"
  BY DEF R, StartScript, EndScript, RWrite, RRemove, findOrAddFile
<1>1. ~DeleteSelf /\ listening
  BY <1>0 DEF DeleteSelf, Event, Watching
<1>2. Typed
  BY DEF Everything
<1>3. CASE StartScript \/ EndScript \/ \E n \in Names : RWrite(n)
  <2>1. UNCHANGED <<watchOf, byWd, filesById, notes, wire>>
    BY <1>3 DEF StartScript, EndScript, RWrite, dirState, indexes, dbQueues
  <2>2. Said' = Said
    BY <2>1 DEF Said, Notified
  <2> QED
    BY <1>1, <2>1, <2>2, BackSame DEF KeepsAll, Known
<1>4. ASSUME NEW n \in Names, RRemove(n), NEW id \in Known' PROVE Back(id)'
  <2> DEFINE m == filesById[id].name
             w == filesById[id].wd
             u == Unit("deleteSelf", n, watchOf[n], "R")
  <2>1. /\ UNCHANGED <<filesById, byWd, notes, wire, input, batch>>
        /\ watchOf' = [watchOf EXCEPT ![n] = 0]
        /\ kernelQ' = IF watchOf[n] = 0 THEN kernelQ ELSE Append(kernelQ, u)
    BY <1>4 DEF RRemove, indexes, dbQueues
  <2>2. id \in Known /\ Back(id) /\ EntryOf(id)' = EntryOf(id)
    BY <1>4, <2>1 DEF Everything, BackInv, Known, EntryOf
  <2>3. Said' = Said
    BY <2>1 DEF Said, Notified
  <2>4. /\ watchOf \in [Names \cup {Dir} -> Nat] /\ kernelQ \in Seq(EventType) /\ m \in Names
    BY <1>2, <2>2 DEF Typed, OutsideTyped, QueuesTyped, TablesTyped, FilesTyped, FileInfo, Known
  <2>5. u \in EventType /\ u.kind = "deleteSelf" /\ u.by = "R" /\ u.name = n /\ u.wd = watchOf[n]
    BY <2>4 DEF Unit, EventType
  <2> HIDE DEF u
  <2>6. CASE EntryOf(id) /\ watchOf[m] = w
    <3>1. ASSUME m = n PROVE Deleted(Happened', m, w)
      <4>1. kernelQ' = Append(kernelQ, u)
        BY <2>1, <2>6, <3>1 DEF EntryOf
      <4>2. u \in Range(kernelQ')
        BY <2>4, <2>5, <4>1, RangeFacts
      <4>3. u \in Happened'
        BY <4>2 DEF Happened, Range
      <4> QED
        BY <2>5, <2>6, <3>1, <4>3 DEF Deleted
    <3>3. watchOf'[m] = w \/ Deleted(Happened', m, w)
      BY <2>1, <2>4, <2>6, <3>1
    <3>4. Deleted(Happened, m, w) => Deleted(Happened', m, w) \/ m \in excused'
      BY <1>1, <1>2, DeletedKept DEF Everything
    <3> QED
      BY <1>2, <2>1, <2>2, <2>3, <3>3, <3>4, BackKept
  <2>7. CASE ~(EntryOf(id) /\ watchOf[m] = w)
    <3>4. Deleted(Happened, m, w) => Deleted(Happened', m, w) \/ m \in excused'
      BY <1>1, <1>2, DeletedKept DEF Everything
    <3> QED
      BY <1>2, <2>1, <2>2, <2>3, <2>7, <3>4, BackKept
  <2> QED
    BY <2>6, <2>7
<1>5. ASSUME NEW n \in Names, findOrAddFile(n) PROVE BackInv'
  <2>1. PICK ok \in BOOLEAN :
          IF ok THEN insertDBFile(n) /\ filesById' = newFile(n)
                ELSE insertRefused(n) /\ UNCHANGED filesById
    BY <1>5 DEF findOrAddFile
  <2>2. UNCHANGED <<watchOf, byWd>> /\ n \notin KnownNames
    BY <1>5 DEF findOrAddFile, dirState
  <2>3. CASE ok
    <3>1. Said \subseteq Said'
      <4> DEFINE m == [op |-> "i", id |-> nextId, name |-> n]
      <4>1. <<m>> \in Seq(Note) /\ Absorb(<<m>>)
        BY <1>2, <2>1, <2>3, NoteTypes DEF insertDBFile, Typed, OutsideTyped
      <4> HIDE DEF m
      <4> QED
        BY <1>2, <4>1, AbsorbSays
    <3> QED
      BY <1>1, <2>1, <2>2, <2>3, <3>1, BackInserted
  <2>4. CASE ~ok
    <3>1. Absorb(<<>>) /\ UNCHANGED filesById /\ <<>> \in Seq(Note)
      BY <2>1, <2>4 DEF insertRefused, insertFails
    <3>2. Said' = Said
      BY <1>2, <3>1, AbsorbSays
    <3> QED
      BY <1>1, <2>2, <3>1, <3>2, BackSame DEF KeepsAll, Known
  <2> QED
    BY <2>3, <2>4
<1>6. ASSUME NEW n \in Names, RRemove(n) PROVE BackInv'
  BY <1>4, <1>6 DEF BackInv
<1> QED
  BY <1>3, <1>5, <1>6 DEF R

LEMMA OthersBack ==
  ASSUME Everything, Typed', Watching, [Next]_vars, Others PROVE BackInv'
<1>0. Typed /\ RowsTyped(rows) /\ nextId \in Nat
  BY DEF Everything, Typed, OutsideTyped
<1>1. ASSUME NEW op \in {"i", "u", "d"}, NEW id \in Nat, NEW n \in Names, Foreign(op, id, n),
             ~DeleteSelf
      PROVE  BackInv'
  <2>1. Said \subseteq Said'
    BY <1>0, <1>1, ForeignSays
  <2>2. UNCHANGED <<watchOf, byWd, filesById>>
    BY <1>1 DEF Foreign, dirState, indexes
  <2> QED
    BY <1>1, <2>1, <2>2, BackSame DEF KeepsAll, Known
<1>2. CASE DeleteSelf
  <2>1. alive /\ pc' = pc /\ batch' = batch
    BY DEF Others, ForeignInsert, ForeignUpdate, ForeignDelete, Foreign, session, fsQueues
  <2>2. batch \in Seq(EventType) /\ batch # <<>> /\ batch' = SubSeq(batch, 2, Len(batch))
    BY <1>0, <1>2 DEF DeleteSelf, Event, Skip, Typed, QueuesTyped
  <2>3. Len(batch') # Len(batch)
    <3>1. Len(batch) \in Nat \ {0} /\ \A i \in 2 .. Len(batch) : batch[i] \in EventType
      BY <2>2
    <3>2. Len(SubSeq(batch, 2, Len(batch))) = IF 2 <= Len(batch) THEN Len(batch) - 2 + 1 ELSE 0
      BY <3>1, SubSeqProperties
    <3> QED
      BY <2>2, <3>1, <3>2
  <2> QED
    BY <2>1, <2>3
<1>3. \A id \in DOMAIN rows : id \in Nat /\ rows[id].name \in Names
  BY <1>0 DEF RowsTyped, RowType
<1> QED
  BY <1>0, <1>1, <1>2, <1>3 DEF Others, ForeignInsert, ForeignUpdate, ForeignDelete

\* The entry under the removed file's id is erased; a file whose entry it was is
\* clobbered.
LEMMA BackRemoved ==
  ASSUME Everything, Typed', Watching, [Next]_vars, DeleteSelf PROVE BackInv'
<1> DEFINE e == Head(batch)
           gone == byWd[e.wd]
<1>0. /\ Typed /\ QueueInv /\ <<>> \in Seq(Note) /\ pc = "inotify" /\ listening
      /\ e.wd \in DOMAIN byWd
  BY DEF Everything, DeleteSelf, Event, Watching
<1>1. PICK ok \in BOOLEAN :
        IF ok THEN removeDBFile(gone)
              ELSE Lost(e.name) /\ Absorb(<<>>) /\ UNCHANGED filesById
  BY DEF DeleteSelf
<1>2. /\ byWd' = Without(byWd, gone) /\ watchOf' = watchOf
      /\ clobbered' = clobbered \cup ({gone} \cap DOMAIN byWd) \cup {}
  BY DEF DeleteSelf, forget, dirState
<1>3. Said \subseteq Said'
  <2>1. CASE ok
    <3>1. CASE gone \in DOMAIN rows
      <4>1. <<NoteOf("d", gone)>> \in Seq(Note) /\ Absorb(<<NoteOf("d", gone)>>)
        BY <1>0, <1>1, <2>1, <3>1, NoteOfTypes DEF removeDBFile
      <4> QED
        BY <1>0, <4>1, AbsorbSays
    <3>2. CASE gone \notin DOMAIN rows
      <4>1. Absorb(<<>>)
        BY <1>1, <2>1, <3>2 DEF removeDBFile
      <4> QED
        BY <1>0, <4>1, AbsorbSays
    <3> QED
      BY <3>1, <3>2
  <2>2. CASE ~ok
    BY <1>0, <1>1, <2>2, AbsorbSays
  <2> QED
    BY <2>1, <2>2
<1>4. ASSUME NEW id \in Known' PROVE Back(id)'
  <2> DEFINE n == filesById[id].name
             w == filesById[id].wd
  <2>1. /\ id \in Known /\ filesById'[id] = filesById[id] /\ (ok => id # gone)
    BY <1>1, <1>4 DEF removeDBFile, Without, Restrict, Known
  <2>2. Back(id)
    BY <2>1 DEF Everything, BackInv
  <2>3. SaidOf(Said, id, {"i", "d"}) => SaidOf(Said', id, {"i", "d"})
    BY <1>3 DEF SaidOf
  <2>4. EntryOf(id) => EntryOf(id)' \/ w \in clobbered'
    <3>1. CASE w = gone
      BY <1>2, <3>1 DEF EntryOf
    <3>2. CASE w # gone
      BY <1>2, <2>1, <3>2 DEF EntryOf, Without, Restrict
    <3> QED
      BY <3>1, <3>2
  <2>5. ASSUME EntryOf(id), Deleted(Happened, n, w)
        PROVE  Deleted(Happened', n, w) \/ n \in excused'
    <3>1. PICK u \in Happened : u.kind = "deleteSelf" /\ u.by = "R" /\ u.name = n /\ u.wd = w
      BY <2>5 DEF Deleted
    <3>2. u \in Happened' \/ n \in excused' \/ u = e
      BY <1>0, <3>1, DeletionKept
    <3>3. CASE u = e
      <4>1. gone = id /\ ~ok
        BY <2>1, <2>5, <3>1, <3>3 DEF EntryOf
      <4> QED
        BY <1>1, <3>1, <3>3, <4>1 DEF Lost
    <3> QED
      BY <3>1, <3>2, <3>3 DEF Deleted
  <2>6. watchOf'[n] = watchOf[n]
    BY <1>2
  <2> QED
    BY <1>0, <2>1, <2>2, <2>3, <2>4, <2>5, <2>6, BackKept
<1> QED
  BY <1>4 DEF BackInv

LEMMA InotifyBack ==
  ASSUME Everything, Typed', Watching, [Next]_vars, Inotify PROVE BackInv'
<1>0. Typed /\ <<>> \in Seq(Note) /\ FilesTyped(filesById) /\ nextId \in Nat
  BY DEF Everything, Typed, TablesTyped, OutsideTyped
<1>1. CASE ~DeleteSelf /\ UNCHANGED <<watchOf, byWd, filesById, notes, wire>>
  <2>1. Said' = Said
    BY <1>1 DEF Said, Notified
  <2> QED
    BY <1>1, <2>1, BackSame DEF KeepsAll, Known
<1>2. CASE CutLongName \/ CreateFailed
  <2>1. ~DeleteSelf /\ UNCHANGED <<watchOf, byWd, filesById>>
    BY <1>2 DEF CutLongName, CreateFailed, DeleteSelf, Event, dirState, indexes
  <2>2. UNCHANGED <<notes, wire>> \/ Absorb(<<>>)
    BY <1>2 DEF CutLongName, CreateFailed, insertFails, dbQueues
  <2>3. Said' = Said
    BY <1>0, <2>2, AbsorbSays DEF Said, Notified
  <2> QED
    BY <2>1, <2>3, BackSame DEF KeepsAll, Known
<1>3. CASE handleInotifyEvent \/ CutName \/ CreateSkipped \/ NoEntry \/ EndBatch
  <2>1. ~DeleteSelf
    BY <1>3 DEF handleInotifyEvent, CutName, CreateSkipped, NoEntry, EndBatch, DeleteSelf, Event
  <2>2. UNCHANGED <<watchOf, byWd, filesById, notes, wire>>
    BY <1>3 DEF handleInotifyEvent, CutName, CreateSkipped, NoEntry, EndBatch, dirState, indexes,
                dbQueues
  <2> QED
    BY <1>1, <2>1, <2>2
<1>4. CASE CreateInserted
  <2> DEFINE n == Head(batch).name
  <2>1. PICK ok \in BOOLEAN :
          IF ok THEN insertDBFile(n) /\ watchFile(nextId, newFile(n))
                ELSE insertRefused(n) /\ UNCHANGED <<watchOf, nextWd, filesById, byWd>>
    BY <1>4 DEF CreateInserted
  <2>2. ~DeleteSelf /\ listening /\ n \in Names \ KnownNames
    BY <1>0, <1>4 DEF CreateInserted, DeleteSelf, Event, Watching, Typed, OutsideTyped, DiskTyped,
                      Present
  <2> HIDE DEF n
  <2>3. CASE ok
    <3> DEFINE m == [op |-> "i", id |-> nextId, name |-> n]
    <3>1. <<m>> \in Seq(Note) /\ Absorb(<<m>>)
      BY <1>0, <2>1, <2>2, <2>3, NoteTypes DEF insertDBFile
    <3> HIDE DEF m
    <3>2. Said \subseteq Said'
      BY <1>0, <3>1, AbsorbSays
    <3> QED
      BY <2>1, <2>2, <2>3, <3>2, BackInserted
  <2>4. CASE ~ok
    <3>1. Said' = Said
      BY <1>0, <2>1, <2>4, AbsorbSays DEF insertRefused, insertFails
    <3> QED
      BY <2>1, <2>2, <2>4, <3>1, BackSame DEF KeepsAll, Known
  <2> QED
    BY <2>3, <2>4
<1>5. CASE CloseWrite
  <2> DEFINE id == byWd[Head(batch).wd]
             n == Head(batch).name
  <2>1. ~DeleteSelf /\ UNCHANGED <<watchOf, byWd>>
    BY <1>5 DEF CloseWrite, DeleteSelf, Event, dirState
  <2>2. \/ UNCHANGED filesById /\ (UNCHANGED dbQueues \/ Absorb(<<>>))
        \/ updateDBFile(id, n)
    BY <1>5 DEF CloseWrite
  <2> HIDE DEF id, n
  <2>3. /\ \/ UNCHANGED filesById
           \/ id \in Known /\ \E v : filesById' = [filesById EXCEPT ![id].version = v]
        /\ \/ UNCHANGED dbQueues \/ Absorb(<<>>)
           \/ id \in DOMAIN rows /\ Absorb(<<NoteOf("u", id)>>)
    BY <2>2 DEF updateDBFile
  <2>4. Said \subseteq Said'
    <3>1. CASE UNCHANGED dbQueues
      BY <3>1 DEF dbQueues, Said, Notified
    <3>2. CASE Absorb(<<>>)
      BY <1>0, <3>2, AbsorbSays
    <3>3. CASE id \in DOMAIN rows /\ Absorb(<<NoteOf("u", id)>>)
      <4>1. <<NoteOf("u", id)>> \in Seq(Note)
        BY <1>0, <3>3, NoteOfTypes
      <4> QED
        BY <1>0, <3>3, <4>1, AbsorbSays
    <3> QED
      BY <2>3, <3>1, <3>2, <3>3
  <2>5. \A jd \in Known' : /\ jd \in Known /\ filesById'[jd].name = filesById[jd].name
                           /\ filesById'[jd].wd = filesById[jd].wd
    BY <1>0, <2>3 DEF FilesTyped, FileInfo, Known
  <2> QED
    BY <2>1, <2>4, <2>5, BackSame DEF KeepsAll
<1> QED
  BY <1>2, <1>3, <1>4, <1>5, BackRemoved DEF Inotify

LEMMA NotificationsBack ==
  ASSUME Everything, Typed', Watching, [Next]_vars, Notifications PROVE BackInv'
<1>0. /\ Typed /\ CacheInv /\ NotesInv /\ FilesUnique /\ WatchesApart /\ <<>> \in Seq(Note)
      /\ FilesTyped(filesById) /\ Known = DOMAIN filesById
      /\ SameNames(rows, filesById, Said, nextId)
  BY DEF Everything, Typed, TablesTyped, CacheInv, Known
<1>1. ~DeleteSelf
  BY DEF Notifications, handleDBNotifications, noteUnknown, noteDelete, noteInsert, noteUpdate,
         EndNotes, Noted, DeleteSelf, Event
<1>2. CASE handleDBNotifications \/ EndNotes
  <2>1. UNCHANGED <<watchOf, byWd, filesById>> /\ (Absorb(<<>>) \/ UNCHANGED dbQueues)
    BY <1>2 DEF handleDBNotifications, EndNotes, dirState, indexes
  <2>2. Said' = Said
    <3>1. CASE UNCHANGED dbQueues
      BY <3>1 DEF dbQueues, Said, Notified
    <3> QED
      BY <1>0, <2>1, <3>1, AbsorbSays
  <2> QED
    BY <1>1, <2>1, <2>2, BackSame DEF KeepsAll, Known
\* What is said of another file than the noted one stays said.
<1>3. ASSUME notes # <<>>, Reload \/ (notes' = Tail(notes) /\ wire' = wire),
             NEW m \in Said, m.id # noted \/ m.op # Head(notes).op
      PROVE  m \in Said'
  BY <1>0, <1>3, TakenSays DEF noted
<1>4. CASE noteUnknown
  <2>1. /\ UNCHANGED <<watchOf, byWd, filesById>> /\ noted \notin Known /\ notes # <<>>
        /\ notes' = Tail(notes) /\ wire' = wire
    BY <1>4 DEF noteUnknown, Noted, dirState, indexes
  <2>2. \A id \in Known' : id \in Known /\ id # noted
    BY <2>1 DEF Known
  <2> QED
    BY <1>1, <1>3, <2>1, <2>2, BackSame DEF KeepsAll
<1>5. CASE noteDelete
  <2> DEFINE k == filesById[noted].name
             v == filesById[noted].wd
  <2>1. PICK g : /\ watchOf' = [m \in DOMAIN watchOf |-> IF m = k \/ watchOf[m] = g
                                                          THEN 0 ELSE watchOf[m]]
                 /\ forget(noted, IF v # 0 THEN {} ELSE {g} \ {0})
                 /\ v # 0 => g = v
    BY <1>5 DEF noteDelete
  <2>2. /\ filesById' = Without(filesById, noted) /\ noted \in Known /\ notes # <<>>
        /\ notes' = Tail(notes) /\ wire' = wire
    BY <1>5 DEF noteDelete, Noted
  <2>3. /\ byWd' = Without(byWd, noted)
        /\ clobbered' = clobbered \cup ({noted} \cap DOMAIN byWd)
                                  \cup (IF v # 0 THEN {} ELSE {g} \ {0})
    BY <2>1 DEF forget
  <2>4. ASSUME NEW id \in Known' PROVE Back(id)'
    <3> DEFINE n == filesById[id].name
               w == filesById[id].wd
    <3>1. id \in Known /\ filesById'[id] = filesById[id] /\ id # noted
      BY <2>2, <2>4 DEF Without, Restrict, Known
    <3>2. Back(id) /\ n \in Dirs /\ k \in Dirs /\ watchOf \in [Dirs -> Nat]
      BY <1>0, <2>2, <3>1 DEF Everything, BackInv, Typed, OutsideTyped, FilesTyped, FileInfo,
                              Dirs
    <3>3. SaidOf(Said, id, {"i", "d"}) => SaidOf(Said', id, {"i", "d"})
      BY <1>3, <2>2, <3>1 DEF SaidOf
    <3>4. EntryOf(id) => EntryOf(id)' \/ w \in clobbered'
      <4>1. CASE w = noted
        BY <2>3, <4>1 DEF EntryOf
      <4>2. CASE w # noted
        BY <2>3, <3>1, <4>2 DEF EntryOf, Without, Restrict
      <4> QED
        BY <4>1, <4>2
    <3>5. ASSUME EntryOf(id), watchOf[n] = w
          PROVE  watchOf'[n] = w \/ n \in excused' \/ w \in clobbered'
      <4>1. CASE n = k
        <5>1. n \in excused /\ excused' = excused
          BY <1>0, <1>5, <2>2, <3>1, <4>1 DEF FilesUnique, noteDelete
        <5> QED
          BY <5>1
      <4>2. CASE n # k /\ w = g /\ v # 0
        <5>1. watchOf[n] = v /\ watchOf[n] # 0
          BY <2>1, <3>5, <4>2 DEF EntryOf
        <5>2. k = n
          BY <1>0, <2>2, <3>2, <5>1 DEF WatchesApart, Apart
        <5> QED
          BY <4>2, <5>2
      <4>3. CASE n # k /\ w = g /\ v = 0
        <5>1. w # 0
          BY <3>5 DEF EntryOf
        <5> QED
          BY <2>3, <4>3, <5>1
      <4>4. CASE n # k /\ w # g
        BY <2>1, <3>2, <3>5, <4>4
      <4> QED
        BY <4>1, <4>2, <4>3, <4>4
    <3>6. Deleted(Happened, n, w) => Deleted(Happened', n, w) \/ n \in excused'
      BY <1>0, <1>1, DeletedKept DEF Everything
    <3> QED
      BY <1>0, <3>1, <3>2, <3>3, <3>4, <3>5, <3>6, BackKept
  <2> QED
    BY <2>4 DEF BackInv
<1>6. CASE noteUpdate
  <2>1. /\ UNCHANGED <<watchOf, byWd>> /\ notes # <<>> /\ Reload /\ Head(notes).op = "u"
        /\ noted \in Known
        /\ \/ UNCHANGED filesById
           \/ noted \in DOMAIN rows /\ filesById' = fileFromRow(noted)
    BY <1>6 DEF noteUpdate, Noted
  <2>2. CASE UNCHANGED filesById
    BY <1>1, <1>3, <2>1, <2>2, BackSame DEF KeepsAll, Known
  <2>3. CASE noted \in DOMAIN rows /\ filesById' = fileFromRow(noted)
    <3> DEFINE files == fileFromRow(noted)
    <3>1. /\ DOMAIN files = Known \cup {noted} /\ files[noted].name = rows[noted].name
          /\ \A jd \in Known \ {noted} : files[jd] = filesById[jd]
          /\ files[noted].wd = filesById[noted].wd
      BY <1>0, <2>1, <2>3, FromRow, RowKept
    <3>2. rows[noted].name = filesById[noted].name
      BY <1>0, <2>1, <2>3 DEF SameNames
    <3>3. filesById' = files
      BY <2>3
    <3> HIDE DEF files
    <3>4. \A id \in Known' : id \in Known /\ KeepsAll(id)
      BY <1>3, <2>1, <3>1, <3>2, <3>3 DEF KeepsAll, Known
    <3> QED
      BY <1>1, <2>1, <3>4, BackSame
  <2> QED
    BY <2>1, <2>2, <2>3
<1>7. CASE noteInsert
  <2>1. PICK ok \in BOOLEAN :
          /\ excused' = IF ok THEN excused ELSE excused \cup {Head(notes).name}
          /\ CASE ok /\ noted \in DOMAIN rows -> watchFile(noted, fileFromRow(noted))
               [] ~(ok /\ noted \in DOMAIN rows) /\ noted \in Known ->
                    watchFile(noted, filesById) \/ UNCHANGED <<watchOf, byWd, filesById>>
               [] OTHER -> UNCHANGED <<watchOf, byWd, filesById>>
    BY <1>7 DEF noteInsert, dirState
  <2>2. /\ notes # <<>> /\ Reload /\ Head(notes).op = "i" /\ pc = "notes" /\ noted = Head(notes).id
    BY <1>7 DEF noteInsert, Noted, noted
  <2>3. CASE ok /\ noted \in DOMAIN rows
    <3> DEFINE files == fileFromRow(noted)
    <3>1. /\ DOMAIN files = Known \cup {noted} /\ files[noted].name = rows[noted].name
          /\ \A jd \in Known \ {noted} : files[jd] = filesById[jd]
      BY <1>0, <2>3, FromRow
    <3>2. FilesTyped(files) /\ watchFile(noted, files)
      BY <1>0, <2>1, <2>3, FileFromRowTypes
    <3> HIDE DEF files
    <3>3. ASSUME NEW id \in Known, id # noted PROVE Back(id)'
      <4>1. CASE filesById[id].name = rows[noted].name
        <5>1. filesById[id].name \in excused'
          BY <1>0, <2>1, <2>2, <2>3, <3>3, <4>1, HeadsFile
        <5>2. filesById'[id].name = filesById[id].name
          BY <3>1, <3>2, <3>3, WatchedTable
        <5> QED
          BY <5>1, <5>2 DEF Back
      <4>2. CASE filesById[id].name # rows[noted].name
        <5>1. \A m \in Said : m.id = id /\ m.op \in {"i", "d"} => m \in Said'
          BY <1>3, <2>2, <3>3
        <5> QED
          BY <1>1, <3>1, <3>2, <3>3, <4>2, <5>1, BackBeside
      <4> QED
        BY <4>1, <4>2
    <3>4. ASSUME NEW id, id = noted PROVE Back(id)'
      BY <1>0, <3>1, <3>2, <3>4, BackWatched
    <3>5. Known' = Known \cup {noted}
      BY <3>1, <3>2, WatchedTable
    <3> QED
      BY <3>3, <3>4, <3>5 DEF BackInv
  <2>4. ASSUME ~(ok /\ noted \in DOMAIN rows), noted \in Known, NEW id \in Known' PROVE Back(id)'
    <3>1. watchFile(noted, filesById) \/ UNCHANGED <<watchOf, byWd, filesById>>
      BY <2>1, <2>4
    <3>2. Known' = Known /\ filesById'[id].name = filesById[id].name
      BY <1>0, <2>4, <3>1, WatchedTable DEF Known
    <3>3. Head(notes) \in Said /\ Head(notes).name = filesById[noted].name
      BY <1>0, <2>2, <2>4, TakenSays DEF SameNames
    <3>4. CASE id = noted
      <4>1. CASE ok
        <5>1. filesById[noted].name \in excused \/ SaidOf(Said, noted, {"d"})
          BY <1>0, <2>2, <2>4, <4>1 DEF CacheInv, Mended
        <5>2. SaidOf(Said, noted, {"d"}) => SaidOf(Said', id, {"i", "d"})
          BY <1>3, <2>2, <3>4 DEF SaidOf
        <5> QED
          BY <2>1, <3>2, <3>4, <4>1, <5>1, <5>2 DEF Back, SaidOf
      <4>2. CASE ~ok
        BY <2>1, <3>2, <3>3, <3>4, <4>2 DEF Back
      <4> QED
        BY <4>1, <4>2
    <3>5. CASE id # noted
      <4>1. \A m \in Said : m.id = id /\ m.op \in {"i", "d"} => m \in Said'
        BY <1>3, <2>2, <3>5
      <4>2. CASE filesById[id].name = filesById[noted].name
        <5>1. filesById[id].name \in excused'
          BY <1>0, <2>1, <2>4, <3>2, <3>5, <4>2 DEF FilesUnique
        <5> QED
          BY <3>2, <5>1 DEF Back
      <4>3. CASE filesById[id].name # filesById[noted].name /\ watchFile(noted, filesById)
        BY <1>0, <1>1, <2>4, <3>2, <3>5, <4>1, <4>3, BackBeside
      <4>4. CASE UNCHANGED <<watchOf, byWd, filesById>>
        BY <1>1, <3>2, <4>1, <4>4, BackQuiet
      <4> QED
        BY <3>1, <4>2, <4>3, <4>4
    <3> QED
      BY <3>4, <3>5
  <2>5. CASE ~(ok /\ noted \in DOMAIN rows) /\ noted \notin Known
    <3>1. UNCHANGED <<watchOf, byWd, filesById>>
      BY <2>1, <2>5
    <3>2. \A id \in Known' : id \in Known /\ KeepsAll(id)
      BY <1>3, <2>2, <2>5, <3>1 DEF KeepsAll, Known
    <3> QED
      BY <1>1, <3>1, <3>2, BackSame
  <2> QED
    BY <2>3, <2>4, <2>5 DEF BackInv
<1> QED
  BY <1>2, <1>4, <1>5, <1>6, <1>7 DEF Notifications

LEMMA StepBack == Everything /\ Typed' /\ [Next]_vars => BackInv'
<1> SUFFICES ASSUME Everything, Typed', [Next]_vars, Watching' PROVE BackInv'
  BY DEF BackInv
<1>1. CASE setupInotify
  BY <1>1, SetUpBack
<1>2. CASE ~setupInotify
  <2>1. Watching
    BY <1>2, WatchingBefore
  <2>2. CASE (Startup \/ handleIgnoreFSNotesOff \/ UNCHANGED vars)
    <3>1. ~DeleteSelf \/ UNCHANGED vars
      BY <2>2 DEF Startup, connect, setupInotify, listen, handleIgnoreFSNotesOff, DeleteSelf, Event
    <3>2. UNCHANGED <<watchOf, byWd, filesById, notes, wire>>
      BY <1>2, <2>1, <2>2 DEF Startup, connect, listen, handleIgnoreFSNotesOff, vars, dirState,
         indexes, dbQueues, Watching
    <3>3. Said' = Said
      BY <3>2 DEF Said, Notified
    <3>4. CASE ~DeleteSelf
      BY <2>1, <3>2, <3>3, <3>4, BackSame DEF KeepsAll, Known
    <3>5. CASE UNCHANGED vars
      BY <2>1, <3>5 DEF vars, dirState, database, dbQueues, indexes, fsQueues, session, history,
         Everything, BackInv, Back, EntryOf, Deleted, SaidOf, Happened, Said, Notified, Known, Range
    <3> QED
      BY <3>1, <3>4, <3>5
  <2> QED
    BY <2>1, <2>2, RBack, OthersBack, InotifyBack, NotificationsBack DEF Next
<1> QED
  BY <1>1, <1>2

LEMMA AlwaysBack == Spec => []BackInv
<1>1. Init => BackInv
  BY DEF Init, BackInv, Watching
<1>2. Everything /\ [Next]_vars => BackInv'
  BY StepBack, StepTyped DEF Everything
<1> QED
  BY <1>1, <1>2, AlwaysTyped, AlwaysCache, AlwaysNotes, AlwaysFilesUnique, AlwaysApart,
     AlwaysQueue, PTL DEF Spec, Everything

\* A file in the table is watched and its watch leads back to it, through the
\* entry of filesByWatchDesc_, unless its insertion is still to be seen, an event
\* of it was lost or is still queued, or its entry was erased under another
\* file's id (watchFile, setupInotify, filesByWatchDesc_.erase).
THEOREM WatchesLeadBack == Spec => []WatchLeadsBack
<1>1. Typed /\ BackInv => WatchLeadsBack
  <2> SUFFICES ASSUME Typed, BackInv, Serving, pc # "setup", listening, NEW id \in Known
               PROVE  LET f == filesById[id]
                      IN \/ f.name \in excused \/ PendingNote(id)
                         \/ \E i \in DOMAIN Units : Units[i].name = f.name
                         \/ f.wd \in clobbered
                         \/ /\ f.wd # 0 /\ watchOf[f.name] = f.wd /\ f.wd \in DOMAIN byWd
                            /\ byWd[f.wd] = id
    BY DEF WatchLeadsBack
  <2>1. Back(id)
    BY DEF BackInv, Watching, Serving
  <2>2. SaidOf(Said, id, {"i", "d"}) => PendingNote(id)
    BY SaidPends
  <2>3. Range(Units) = Happened
    BY Joined DEF Typed, QueuesTyped, Units, Happened
  <2>4. \A n, w : Deleted(Happened, n, w) => \E i \in DOMAIN Units : Units[i].name = n
    BY <2>3 DEF Deleted, Range
  <2> QED
    BY <2>1, <2>2, <2>4 DEF Back, EntryOf
<1> QED
  BY <1>1, AlwaysTyped, AlwaysBack, PTL

-----------------------------------------------------------------------------
(* Descriptors: what still carries one, and which file it is about. *)

\* A descriptor is a file's while the file is watched under it or an event with
\* it is still to be processed.
Holds(w, n) ==
  w # 0 /\ (watchOf[n] = w \/ \E u \in Happened : u.kind \in FileEvents /\ u.wd = w /\ u.name = n)

\* Whatever the tables know under an id has this name.
Named(id, n) ==
  /\ id \in Known => filesById[id].name = n
  /\ id \in DOMAIN rows => rows[id].name = n

\* No descriptor is handed out twice.
OneName == \A w \in Nat : \A n \in Names :
             Holds(w, n) => w < nextWd /\ \A m \in Names : Holds(w, m) => m = n

EntriesNamed == \A w \in DOMAIN byWd :
                  byWd[w] < nextId /\ \A n \in Names : Holds(w, n) => Named(byWd[w], n)

\* What was removed is R's doing, no longer watched, and not heard of again.
RemovedUnwatched ==
  \A u \in Happened : u.kind = "deleteSelf" => u.by = "R" /\ \A n \in Names : watchOf[n] # u.wd

RemovedLast(q) ==
  \A i, j \in DOMAIN q :
    i < j /\ q[i].kind = "deleteSelf" /\ q[j].kind \in FileEvents => q[i].wd # q[j].wd

NotWatchedYet == pc \in {"load", "setup"} => \A n \in Names : watchOf[n] = 0

EventWds == \A u \in Happened : u.kind \in FileEvents => u.wd # 0

DescriptorInv ==
  /\ OneName /\ EntriesNamed /\ RemovedUnwatched /\ RemovedLast(Stream) /\ NotWatchedYet
  /\ EventWds /\ NothingYet

\* A file that was removed and is there again: R created it after the removal.
Again(q, n) ==
  \A i \in DOMAIN q : q[i].kind = "deleteSelf" /\ q[i].name = n =>
    \E j \in DOMAIN q : i < j /\ q[j].kind = "create" /\ q[j].by = "R" /\ q[j].name = n

LEMMA RemovalsDropped ==
  ASSUME NEW X, NEW q \in Seq(X), NEW k \in 0 .. Len(q)
  PROVE  /\ RemovedLast(q) => RemovedLast(Drop(q, k))
         /\ \A n : Again(q, n) => Again(Drop(q, k), n)
<1> DEFINE d == Drop(q, k)
<1>1. /\ Len(q) \in Nat /\ DOMAIN q = 1 .. Len(q) /\ DOMAIN d = 1 .. Len(q) - k /\ k \in Nat
      /\ \A i \in 1 .. Len(q) - k : d[i] = q[i + k] /\ i + k \in DOMAIN q
  BY Dropped
<1> HIDE DEF d
<1>2. ASSUME RemovedLast(q) PROVE RemovedLast(d)
  <2> SUFFICES ASSUME NEW i \in DOMAIN d, NEW j \in DOMAIN d, i < j,
                      d[i].kind = "deleteSelf", d[j].kind \in FileEvents
               PROVE  d[i].wd # d[j].wd
    BY DEF RemovedLast
  <2>1. i + k \in DOMAIN q /\ j + k \in DOMAIN q /\ i + k < j + k
        /\ d[i] = q[i + k] /\ d[j] = q[j + k]
    BY <1>1
  <2> QED
    BY <1>2, <2>1 DEF RemovedLast
<1>3. ASSUME NEW n, Again(q, n) PROVE Again(d, n)
  <2> SUFFICES ASSUME NEW i \in DOMAIN d, d[i].kind = "deleteSelf", d[i].name = n
               PROVE  \E j \in DOMAIN d : i < j /\ d[j].kind = "create" /\ d[j].by = "R"
                                          /\ d[j].name = n
    BY DEF Again
  <2>1. i + k \in DOMAIN q /\ d[i] = q[i + k] /\ i \in Nat
    BY <1>1
  <2>2. PICK j \in DOMAIN q : i + k < j /\ q[j].kind = "create" /\ q[j].by = "R"
                              /\ q[j].name = n
    BY <1>3, <2>1 DEF Again
  <2>3. j - k \in 1 .. Len(q) - k /\ j - k + k = j /\ i < j - k
    BY <1>1, <2>1, <2>2
  <2>4. d[j - k] = q[j] /\ j - k \in DOMAIN d
    BY <1>1, <2>3
  <2> QED
    BY <2>2, <2>3, <2>4
<1> QED
  BY <1>2, <1>3 DEF d

LEMMA Placed ==
  ASSUME NEW X, NEW p \in Seq(X), NEW q \in Seq(X)
  PROVE  /\ DOMAIN (p \o q) = 1 .. Len(p) + Len(q) /\ Len(p) \in Nat /\ Len(q) \in Nat
         /\ \A i \in DOMAIN p : i \in DOMAIN (p \o q) /\ (p \o q)[i] = p[i] /\ p[i] \in Range(p)
         /\ \A i \in DOMAIN (p \o q) :
              \/ i \in DOMAIN p
              \/ Len(p) < i /\ i - Len(p) \in DOMAIN q /\ (p \o q)[i] = q[i - Len(p)]
                 /\ (p \o q)[i] \in Range(q)
         /\ \A u \in Range(q) : \E i \in DOMAIN (p \o q) : Len(p) < i /\ (p \o q)[i] = u
<1>1. /\ p \o q \in Seq(X) /\ Len(p \o q) = Len(p) + Len(q)
      /\ DOMAIN p = 1 .. Len(p) /\ DOMAIN q = 1 .. Len(q)
      /\ Len(p) \in Nat /\ Len(q) \in Nat
      /\ \A i \in 1 .. Len(p) + Len(q) :
           (p \o q)[i] = IF i <= Len(p) THEN p[i] ELSE q[i - Len(p)]
  BY ConcatProperties
<1>2. DOMAIN (p \o q) = 1 .. Len(p) + Len(q)
  BY <1>1
<1>3. ASSUME NEW i \in DOMAIN (p \o q), i \notin DOMAIN p
      PROVE  Len(p) < i /\ i - Len(p) \in DOMAIN q /\ (p \o q)[i] = q[i - Len(p)]
             /\ (p \o q)[i] \in Range(q)
  <2>1. Len(p) < i /\ i - Len(p) \in DOMAIN q
    BY <1>1, <1>2, <1>3
  <2> QED
    BY <1>1, <1>2, <2>1 DEF Range
<1>4. ASSUME NEW u \in Range(q)
      PROVE  \E i \in DOMAIN (p \o q) : Len(p) < i /\ (p \o q)[i] = u
  <2>1. PICK j \in DOMAIN q : q[j] = u
    BY DEF Range
  <2>2. j + Len(p) \in DOMAIN (p \o q) /\ Len(p) < j + Len(p) /\ j + Len(p) - Len(p) = j
        /\ ~(j + Len(p) <= Len(p))
    BY <1>1, <1>2
  <2>3. (p \o q)[j + Len(p)] = u
    BY <1>1, <1>2, <2>1, <2>2
  <2> QED
    BY <2>2, <2>3
<1>5. \A i \in DOMAIN p : i \in DOMAIN (p \o q) /\ (p \o q)[i] = p[i] /\ p[i] \in Range(p)
  BY <1>1, <1>2 DEF Range
<1> QED
  BY <1>1, <1>2, <1>3, <1>4, <1>5

LEMMA RemovalsQueued ==
  ASSUME NEW X, NEW p \in Seq(X), NEW q \in Seq(X)
  PROVE  /\ /\ RemovedLast(p) /\ RemovedLast(q)
            /\ \A u \in Range(p), v \in Range(q) :
                 u.kind = "deleteSelf" /\ v.kind \in FileEvents => u.wd # v.wd
            => RemovedLast(p \o q)
         /\ \A n : Again(p, n) /\ (\A v \in Range(q) : v.kind # "deleteSelf" \/ v.name # n)
                     => Again(p \o q, n)
         /\ \A n : /\ \A v \in Range(q) : v.kind # "deleteSelf"
                   /\ \E v \in Range(q) : v.kind = "create" /\ v.by = "R" /\ v.name = n
                   => Again(p \o q, n)
<1> DEFINE r == p \o q
           l == Len(p)
<1>1. /\ l \in Nat /\ DOMAIN p = 1 .. l
      /\ \A i \in DOMAIN p : i \in DOMAIN r /\ r[i] = p[i] /\ p[i] \in Range(p)
      /\ \A i \in DOMAIN r :
           i \in DOMAIN p \/ (l < i /\ i - l \in DOMAIN q /\ r[i] = q[i - l] /\ r[i] \in Range(q))
      /\ \A u \in Range(q) : \E i \in DOMAIN r : l < i /\ r[i] = u
      /\ DOMAIN r \subseteq Nat
  BY Placed
<1> HIDE DEF r, l
<1>2. ASSUME RemovedLast(p), RemovedLast(q),
             \A u \in Range(p), v \in Range(q) :
               u.kind = "deleteSelf" /\ v.kind \in FileEvents => u.wd # v.wd
      PROVE  RemovedLast(r)
  <2> SUFFICES ASSUME NEW i \in DOMAIN r, NEW j \in DOMAIN r, i < j,
                      r[i].kind = "deleteSelf", r[j].kind \in FileEvents
               PROVE  r[i].wd # r[j].wd
    BY DEF RemovedLast
  <2>0. i \in Nat /\ j \in Nat
    BY <1>1
  <2>1. CASE j \in DOMAIN p
    <3>1. i \in DOMAIN p
      <4>1. CASE i \notin DOMAIN p
        BY <1>1, <2>0, <2>1, <4>1
      <4> QED
        BY <4>1
    <3> QED
      BY <1>1, <1>2, <2>1, <3>1 DEF RemovedLast
  <2>2. CASE j \notin DOMAIN p /\ i \in DOMAIN p
    <3>1. r[i] \in Range(p) /\ r[j] \in Range(q)
      BY <1>1, <2>2
    <3> QED
      BY <1>2, <3>1
  <2>3. CASE j \notin DOMAIN p /\ i \notin DOMAIN p
    <3>1. i - l \in DOMAIN q /\ j - l \in DOMAIN q /\ r[i] = q[i - l] /\ r[j] = q[j - l]
      BY <1>1, <2>3
    <3>2. i - l < j - l
      BY <1>1, <2>0
    <3> QED
      BY <1>2, <3>1, <3>2 DEF RemovedLast
  <2> QED
    BY <2>1, <2>2, <2>3
<1>3. ASSUME NEW n, Again(p, n), \A v \in Range(q) : v.kind # "deleteSelf" \/ v.name # n
      PROVE  Again(r, n)
  <2> SUFFICES ASSUME NEW i \in DOMAIN r, r[i].kind = "deleteSelf", r[i].name = n
               PROVE  \E j \in DOMAIN r : i < j /\ r[j].kind = "create" /\ r[j].by = "R"
                                          /\ r[j].name = n
    BY DEF Again
  <2>1. i \in DOMAIN p /\ r[i] = p[i]
    BY <1>1, <1>3
  <2>2. PICK j \in DOMAIN p : i < j /\ p[j].kind = "create" /\ p[j].by = "R" /\ p[j].name = n
    BY <1>3, <2>1 DEF Again
  <2> QED
    BY <1>1, <2>2
<1>4. ASSUME NEW n, \A v \in Range(q) : v.kind # "deleteSelf",
             NEW v \in Range(q), v.kind = "create", v.by = "R", v.name = n
      PROVE  Again(r, n)
  <2> SUFFICES ASSUME NEW i \in DOMAIN r, r[i].kind = "deleteSelf", r[i].name = n
               PROVE  \E j \in DOMAIN r : i < j /\ r[j].kind = "create" /\ r[j].by = "R"
                                          /\ r[j].name = n
    BY DEF Again
  <2>1. i \in DOMAIN p /\ i <= l
    BY <1>1, <1>4
  <2>2. PICK j \in DOMAIN r : l < j /\ r[j] = v
    BY <1>1
  <2>3. i < j
    BY <1>1, <2>1, <2>2
  <2> QED
    BY <1>4, <2>2, <2>3
<1> QED
  BY <1>2, <1>3, <1>4 DEF r

\* The branches of handleInotifyEvent take the event they are for.
LEMMA BranchTakes ==
  ASSUME Typed, \/ CutName \/ CreateSkipped \/ CreateFailed \/ CreateInserted
                \/ CloseWrite \/ DeleteSelf
  PROVE  \E k \in {1, 2} : TookEvent(k)
<1>0. batch \in Seq(EventType) /\ Len(batch) \in Nat
  BY DEF Typed, QueuesTyped
<1>1. ASSUME NEW k \in {1, 2}, pc = "inotify", batch # <<>>, Skip(k), k <= Len(batch),
             UNCHANGED <<kernelQ, input>>, k = 2 => Head(batch).kind = "create",
             Head(batch).kind = "deleteSelf" => DeleteSelf
      PROVE  TookEvent(k)
  BY <1>1, StreamSkip DEF TookEvent
<1>2. CASE CutName
  <2>1. 1 <= Len(batch)
    BY <1>0, <1>2 DEF CutName, Event
  <2> QED
    BY <1>1, <1>2, <2>1 DEF CutName, Event
<1>3. CASE CreateSkipped
  <2> DEFINE k == IF Len(batch) = 1 THEN 1 ELSE 2
  <2>1. /\ k \in {1, 2} /\ k <= Len(batch) /\ batch # <<>> /\ Skip(k)
        /\ UNCHANGED <<kernelQ, input>>
    BY <1>0, <1>3 DEF CreateSkipped, Event
  <2> HIDE DEF k
  <2> QED
    BY <1>1, <1>3, <2>1 DEF CreateSkipped, Event
<1>7. CASE CreateFailed
  <2> DEFINE k == IF Len(batch) = 1 THEN 1 ELSE 2
  <2>1. /\ k \in {1, 2} /\ k <= Len(batch) /\ batch # <<>> /\ Skip(k)
        /\ UNCHANGED <<kernelQ, input>>
    BY <1>0, <1>7 DEF CreateFailed, Event
  <2> HIDE DEF k
  <2> QED
    BY <1>1, <1>7, <2>1 DEF CreateFailed, Event
<1>4. CASE CreateInserted
  <2>1. 2 <= Len(batch)
    BY <1>0, <1>4 DEF CreateInserted
  <2> QED
    BY <1>1, <1>4, <2>1 DEF CreateInserted, Event
<1>5. CASE CloseWrite
  <2>1. 1 <= Len(batch)
    BY <1>0, <1>5 DEF CloseWrite, Event
  <2> QED
    BY <1>1, <1>5, <2>1 DEF CloseWrite, Event
<1>6. CASE DeleteSelf
  <2>1. 1 <= Len(batch)
    BY <1>0, <1>6 DEF DeleteSelf, Event
  <2> QED
    BY <1>1, <1>6, <2>1 DEF DeleteSelf, Event
<1> QED
  BY <1>2, <1>3, <1>4, <1>5, <1>6, <1>7

-----------------------------------------------------------------------------
(* What each step does to the stream of events. *)

\* What a write of n makes the kernel queue.
WriteUnits(n, by) ==
  CASE n \notin Present -> CreateUnits(n, by)
    [] n \in Present /\ watchOf[n] # 0 -> <<Unit("closeWrite", n, watchOf[n], by)>>
    [] OTHER -> <<>>

RemoveUnits(n) ==
  IF watchOf[n] = 0 THEN <<>> ELSE <<Unit("deleteSelf", n, watchOf[n], "R")>>

\* Queued units of a write: of the watch n has, none a removal.
Writes(q, n, by) ==
  /\ q \in Seq(EventType) /\ Stream' = Stream \o q /\ About(q, n, by)
  /\ \A u \in Range(q) : u.kind # "deleteSelf"
  /\ n \notin Present /\ watchOf[Dir] # 0 => \E u \in Range(q) : u.kind = "create"
  /\ n \in Present /\ watchOf[n] # 0 => \E u \in Range(q) : u.kind = "closeWrite"

Removes(q, n) ==
  /\ q \in Seq(EventType) /\ Stream' = Stream \o q
  /\ \A u \in Range(q) : /\ u.kind = "deleteSelf" /\ u.name = n /\ u.by = "R"
                         /\ u.wd = watchOf[n] /\ u.wd # 0
  /\ RemovedLast(q)
  /\ watchOf[n] # 0 => \E u \in Range(q) : u.wd = watchOf[n]

LEMMA WritesQueue ==
  ASSUME Typed, NEW n \in Names, NEW by \in {"R", "self"}, UNCHANGED <<input, batch>>,
         kernelQ' = kernelQ \o WriteUnits(n, by)
  PROVE  Writes(WriteUnits(n, by), n, by)
<1> DEFINE q == WriteUnits(n, by)
<1> SUFFICES Writes(q, n, by)
  OBVIOUS
<1>1. CASE n \notin Present
  <2>1. q = CreateUnits(n, by)
    BY <1>1 DEF WriteUnits
  <2>2. q \in Seq(EventType) /\ About(q, n, by)
    BY <2>1, UnitTypes, CreateUnitsAbout
  <2>3. Stream' = Stream \o q
    BY <2>2, QueueGrows
  <2>4. CASE watchOf[Dir] = 0
    <3>1. q = <<>>
      BY <2>1, <2>4 DEF CreateUnits
    <3>2. Range(q) = {}
      BY <3>1 DEF Range
    <3> HIDE DEF q
    <3> QED
      BY <1>1, <2>2, <2>3, <2>4, <3>2 DEF Writes
  <2>5. CASE watchOf[Dir] # 0
    <3>1. q = <<Unit("create", n, 0, by), Unit("name", n, 0, by)>>
      BY <2>1, <2>5 DEF CreateUnits
    <3>2. Range(q) = {Unit("create", n, 0, by), Unit("name", n, 0, by)}
      BY <3>1 DEF Range
    <3>3. /\ \A u \in Range(q) : u.kind # "deleteSelf"
          /\ \E u \in Range(q) : u.kind = "create"
      BY <3>2 DEF Unit
    <3> HIDE DEF q
    <3> QED
      BY <1>1, <2>2, <2>3, <3>3 DEF Writes
  <2> QED
    BY <2>4, <2>5
<1>2. CASE n \in Present /\ watchOf[n] # 0
  <2> DEFINE c == Unit("closeWrite", n, watchOf[n], by)
  <2>1. q = <<c>>
    BY <1>2 DEF WriteUnits
  <2>2. q \in Seq(EventType)
    BY <2>1, UnitTypes
  <2>3. Range(q) = {c}
    BY <2>1 DEF Range
  <2>4. c.name = n /\ c.by = by /\ c.wd = watchOf[n] /\ c.kind = "closeWrite"
    BY DEF Unit
  <2>5. Stream' = Stream \o q
    BY <2>2, QueueGrows
  <2> HIDE DEF c, q
  <2> QED
    BY <1>2, <2>2, <2>3, <2>4, <2>5 DEF Writes, About
<1>3. CASE n \in Present /\ watchOf[n] = 0
  <2>1. q = <<>>
    BY <1>3 DEF WriteUnits
  <2>2. q \in Seq(EventType) /\ Range(q) = {}
    BY <2>1 DEF Range
  <2>3. Stream' = Stream \o q
    BY <2>2, QueueGrows
  <2> HIDE DEF q
  <2> QED
    BY <1>3, <2>2, <2>3 DEF Writes, About
<1> QED
  BY <1>1, <1>2, <1>3

LEMMA RemovesQueue ==
  ASSUME Typed, NEW n \in Names, RRemove(n)
  PROVE  Removes(RemoveUnits(n), n)
<1> DEFINE q == RemoveUnits(n)
           u == Unit("deleteSelf", n, watchOf[n], "R")
<1>1. /\ UNCHANGED <<input, batch>>
      /\ kernelQ' = IF watchOf[n] = 0 THEN kernelQ ELSE Append(kernelQ, u)
      /\ kernelQ \in Seq(EventType)
  BY DEF RRemove, Typed, QueuesTyped
<1>2. <<u>> \in Seq(EventType) /\ u \in EventType
  <2>1. u \in EventType
    BY DEF Unit, EventType, Typed, OutsideTyped
  <2> HIDE DEF u
  <2> QED
    BY <2>1
<1>3. u.kind = "deleteSelf" /\ u.name = n /\ u.by = "R" /\ u.wd = watchOf[n]
  BY DEF Unit
<1>4. q = IF watchOf[n] = 0 THEN <<>> ELSE <<u>>
  BY DEF RemoveUnits
<1> HIDE DEF u, q
<1>5. q \in Seq(EventType) /\ kernelQ' = kernelQ \o q
  <2>1. kernelQ \o <<u>> = Append(kernelQ, u) /\ kernelQ \o <<>> = kernelQ
    BY <1>1, <1>2, OneMore
  <2> QED
    BY <1>1, <1>2, <1>4, <2>1
<1>6. Stream' = Stream \o q
  BY <1>1, <1>5, QueueGrows
<1>7. Range(q) = IF watchOf[n] = 0 THEN {} ELSE {u}
  BY <1>4 DEF Range
<1>8. DOMAIN q \subseteq {1}
  BY <1>4
<1>9. RemovedLast(q)
  BY <1>8 DEF RemovedLast
<1> QED
  BY <1>3, <1>5, <1>6, <1>7, <1>9 DEF Removes, q

\* Every step leaves the stream alone, takes from its front, or queues the units of
\* one write or of one removal.
LEMMA StreamMoves ==
  ASSUME Typed, QueueInv, [Next]_vars
  PROVE  \/ Stream' = Stream
         \/ \E k \in {1, 2} : TookEvent(k)
         \/ \E k \in Nat : Ignored(k)
         \/ \E n \in Names : RWrite(n) /\ Writes(WriteUnits(n, "R"), n, "R")
         \/ \E n \in Names : RRemove(n) /\ Removes(RemoveUnits(n), n)
         \/ /\ noteInsert \/ noteUpdate
            /\ \E n \in Names : /\ writeFile(n, rows[noted].data)
                                /\ noted \in DOMAIN rows /\ n = rows[noted].name
                                /\ Writes(WriteUnits(n, "self"), n, "self")
<1> DEFINE G == \/ Stream' = Stream
                \/ \E k \in {1, 2} : TookEvent(k)
                \/ \E k \in Nat : Ignored(k)
                \/ \E n \in Names : RWrite(n) /\ Writes(WriteUnits(n, "R"), n, "R")
                \/ \E n \in Names : RRemove(n) /\ Removes(RemoveUnits(n), n)
                \/ /\ noteInsert \/ noteUpdate
                   /\ \E n \in Names : /\ writeFile(n, rows[noted].data)
                                       /\ noted \in DOMAIN rows /\ n = rows[noted].name
                                       /\ Writes(WriteUnits(n, "self"), n, "self")
<1>1. CASE UNCHANGED fsQueues
  BY <1>1 DEF fsQueues, Stream
<1>2. CASE Startup
  BY <1>1, <1>2 DEF Startup, connect, setupInotify, listen
<1>3. CASE R
  <2>1. CASE StartScript \/ EndScript \/ \E n \in Names : findOrAddFile(n)
    BY <1>1, <2>1 DEF StartScript, EndScript, findOrAddFile
  <2>2. ASSUME NEW n \in Names, RWrite(n) PROVE G
    <3>1. UNCHANGED <<input, batch>> /\ kernelQ' = kernelQ \o WriteUnits(n, "R")
      BY <2>2 DEF RWrite, WriteUnits
    <3> QED
      BY <2>2, <3>1, WritesQueue
  <2>3. ASSUME NEW n \in Names, RRemove(n) PROVE G
    BY <2>3, RemovesQueue
  <2> QED
    BY <1>3, <2>1, <2>2, <2>3 DEF R
<1>4. CASE Others
  BY <1>1, <1>4 DEF Others, ForeignInsert, ForeignUpdate, ForeignDelete, Foreign
<1>5. CASE Inotify
  <2>2. CASE handleInotifyEvent
    <3>1. CASE ignoreFS
      <4>1. PICK k \in 0 .. Len(Stream) :
              /\ Stream' = Drop(Stream, k)
              /\ \A i \in 1 .. k : Stream[i].by = "R" => Stream[i].name \in excused'
        BY <2>2, <3>1, StreamRead
      <4>2. k \in Nat
        BY <4>1
      <4> QED
        BY <2>2, <4>1, <4>2 DEF Ignored
    <3> QED
      BY <2>2, <3>1, StreamRead
  <2>3. CASE NoEntry \/ EndBatch
    BY <1>1, <2>3 DEF NoEntry, EndBatch
  <2>4. CASE CutName \/ CreateSkipped \/ CreateFailed \/ CreateInserted \/ CloseWrite \/ DeleteSelf
    BY <2>4, BranchTakes
  <2>5. CASE CutLongName
    BY <2>5, LongNameTakes
  <2> QED
    BY <1>5, <2>2, <2>3, <2>4, <2>5 DEF Inotify
<1>6. CASE Notifications
  <2>1. CASE handleDBNotifications \/ noteUnknown \/ noteDelete \/ EndNotes
    BY <1>1, <2>1 DEF handleDBNotifications, noteUnknown, noteDelete, EndNotes
  <2>2. CASE noteInsert \/ noteUpdate
    <3>1. /\ UNCHANGED <<input, batch>>
          /\ \/ kernelQ' = kernelQ
             \/ noted \in DOMAIN rows /\ writeFile(rows[noted].name, rows[noted].data)
      <4>1. CASE noteUpdate
        BY <4>1 DEF noteUpdate
      <4>2. CASE noteInsert
        <5>1. CASE noted \in DOMAIN rows
          BY <4>2, <5>1 DEF noteInsert
        <5>2. CASE noted \notin DOMAIN rows
          BY <4>2, <5>2 DEF noteInsert
        <5> QED
          BY <5>1, <5>2
      <4> QED
        BY <2>2, <4>1, <4>2
    <3>2. CASE kernelQ' = kernelQ
      BY <3>1, <3>2 DEF Stream
    <3>3. CASE noted \in DOMAIN rows /\ writeFile(rows[noted].name, rows[noted].data)
      <4> DEFINE n == rows[noted].name
      <4>1. n \in Names
        BY <3>3 DEF Typed, OutsideTyped, RowsTyped, RowType
      <4>2. kernelQ' = kernelQ \o WriteUnits(n, "self")
        BY <3>3 DEF writeFile, WriteUnits
      <4>3. Writes(WriteUnits(n, "self"), n, "self")
        BY <3>1, <4>1, <4>2, WritesQueue
      <4> QED
        BY <2>2, <3>3, <4>1, <4>3
    <3> QED
      BY <3>1, <3>2, <3>3
  <2> QED
    BY <1>6, <2>1, <2>2 DEF Notifications
<1>7. CASE handleIgnoreFSNotesOff \/ UNCHANGED vars
  BY <1>1, <1>7 DEF handleIgnoreFSNotesOff, vars
<1> QED
  BY <1>2, <1>3, <1>4, <1>5, <1>6, <1>7 DEF Next

-----------------------------------------------------------------------------
(* What each step does to the watches and the entries. *)

WatchesLess ==
  /\ nextWd' = nextWd /\ \A n \in Dirs : watchOf'[n] \in {0, watchOf[n]}
  /\ DOMAIN byWd' \subseteq DOMAIN byWd /\ \A w \in DOMAIN byWd' : byWd'[w] = byWd[w]

Watches(files, id) ==
  /\ FilesTyped(files) /\ id \in DOMAIN files /\ watchFile(id, files)
  /\ \/ CreateInserted /\ id = nextId /\ files = newFile(Head(batch).name)
     \/ noteInsert /\ id = noted /\ noted \in DOMAIN rows /\ files = fileFromRow(noted)
     \/ noteInsert /\ id = noted /\ files = filesById

LEMMA Forgets ==
  ASSUME NEW id, byWd' = Without(byWd, id)
  PROVE  DOMAIN byWd' \subseteq DOMAIN byWd /\ \A w \in DOMAIN byWd' : byWd'[w] = byWd[w]
BY DEF Without, Restrict

LEMMA WatchSteps ==
  ASSUME Typed, [Next]_vars
  PROVE  setupInotify \/ WatchesLess \/ \E files, id : Watches(files, id)
<1>0. watchOf \in [Dirs -> Nat] /\ FilesTyped(filesById) /\ Known = DOMAIN filesById
  BY DEF Typed, OutsideTyped, TablesTyped, Known, Dirs
<1>1. CASE UNCHANGED <<watchOf, nextWd, byWd>>
  BY <1>1 DEF WatchesLess
<1>2. CASE connect \/ listen
  BY <1>1, <1>2 DEF connect, listen, dirState, indexes
<1>3. CASE R
  <2>1. CASE StartScript \/ EndScript \/ \E n \in Names : RWrite(n) \/ findOrAddFile(n)
    BY <1>1, <2>1 DEF StartScript, EndScript, RWrite, findOrAddFile, dirState, indexes
  <2>2. ASSUME NEW n \in Names, RRemove(n) PROVE WatchesLess
    BY <1>0, <2>2 DEF RRemove, WatchesLess, indexes
  <2> QED
    BY <1>3, <2>1, <2>2 DEF R
<1>4. CASE Others
  BY <1>1, <1>4 DEF Others, ForeignInsert, ForeignUpdate, ForeignDelete, Foreign, dirState,
                    indexes
<1>5. CASE Inotify
  <2>1. CASE \/ handleInotifyEvent \/ CutName \/ CutLongName \/ CreateSkipped \/ CreateFailed
             \/ NoEntry \/ CloseWrite \/ EndBatch
    BY <1>1, <2>1 DEF handleInotifyEvent, CutName, CutLongName, CreateSkipped, CreateFailed,
       NoEntry, CloseWrite, EndBatch,
                      dirState, indexes
  <2>2. CASE CreateInserted
    <3> DEFINE files == newFile(Head(batch).name)
    <3>1. /\ watchFile(nextId, files) \/ UNCHANGED <<watchOf, nextWd, byWd>>
          /\ Head(batch).name \in Names
      BY <2>2 DEF CreateInserted, Typed, OutsideTyped, DiskTyped, Present
    <3>2. FilesTyped(files) /\ nextId \in DOMAIN files
      BY <3>1, InsertTypes
    <3>3. watchFile(nextId, files) => Watches(files, nextId)
      BY <2>2, <3>2 DEF Watches
    <3> QED
      BY <1>1, <3>1, <3>3
  <2>3. CASE DeleteSelf
    <3>1. UNCHANGED <<watchOf, nextWd>> /\ byWd' = Without(byWd, byWd[Head(batch).wd])
      BY <2>3 DEF DeleteSelf, forget, dirState
    <3>2. DOMAIN byWd' \subseteq DOMAIN byWd /\ \A w \in DOMAIN byWd' : byWd'[w] = byWd[w]
      BY <3>1, Forgets
    <3> QED
      BY <3>1, <3>2 DEF WatchesLess
  <2> QED
    BY <1>5, <2>1, <2>2, <2>3 DEF Inotify
<1>6. CASE Notifications
  <2>1. CASE handleDBNotifications \/ noteUnknown \/ noteUpdate \/ EndNotes
    BY <1>1, <2>1 DEF handleDBNotifications, noteUnknown, noteUpdate, EndNotes, dirState, indexes
  <2>2. CASE noteDelete
    <3>1. /\ \A m \in Dirs : watchOf'[m] \in {0, watchOf[m]}
          /\ nextWd' = nextWd /\ byWd' = Without(byWd, noted)
      BY <1>0, <2>2 DEF noteDelete, forget
    <3>2. DOMAIN byWd' \subseteq DOMAIN byWd /\ \A w \in DOMAIN byWd' : byWd'[w] = byWd[w]
      BY <3>1, Forgets
    <3> QED
      BY <3>1, <3>2 DEF WatchesLess
  <2>3. CASE noteInsert
    <3>1. PICK ok \in BOOLEAN :
            CASE ok /\ noted \in DOMAIN rows -> watchFile(noted, fileFromRow(noted))
              [] ~(ok /\ noted \in DOMAIN rows) /\ noted \in Known ->
                   watchFile(noted, filesById) \/ UNCHANGED <<watchOf, nextWd, byWd>>
              [] OTHER -> UNCHANGED <<watchOf, nextWd, byWd>>
      BY <2>3 DEF noteInsert, dirState
    <3>2. CASE ok /\ noted \in DOMAIN rows
      <4>1. FilesTyped(fileFromRow(noted)) /\ noted \in DOMAIN fileFromRow(noted)
        BY <3>2, FileFromRowTypes
      <4>2. watchFile(noted, fileFromRow(noted))
        BY <3>1, <3>2
      <4>3. Watches(fileFromRow(noted), noted)
        BY <2>3, <3>2, <4>1, <4>2 DEF Watches
      <4> QED
        BY <4>3
    <3>3. CASE ~(ok /\ noted \in DOMAIN rows) /\ noted \in Known
      <4>1. watchFile(noted, filesById) => Watches(filesById, noted)
        BY <1>0, <2>3, <3>3 DEF Watches
      <4> QED
        BY <1>1, <3>1, <3>3, <4>1
    <3>4. CASE ~(ok /\ noted \in DOMAIN rows) /\ noted \notin Known
      BY <1>1, <3>1, <3>4
    <3> QED
      BY <3>2, <3>3, <3>4
  <2> QED
    BY <1>6, <2>1, <2>2, <2>3 DEF Notifications
<1>7. CASE handleIgnoreFSNotesOff \/ UNCHANGED vars
  BY <1>1, <1>7 DEF handleIgnoreFSNotesOff, vars, dirState, indexes
<1> QED
  BY <1>2, <1>3, <1>4, <1>5, <1>6, <1>7 DEF Next, Startup

\* An event that was not there before is about a watched file, under its watch.
LEMMA NewUnits ==
  ASSUME Typed, Typed', QueueInv, [Next]_vars, NEW u \in Happened', u \notin Happened
  PROVE  /\ u.kind \in FileEvents => u.wd # 0 /\ u.wd = watchOf[u.name]
         /\ u.kind = "deleteSelf" => /\ u.by = "R" /\ \E n \in Names : RRemove(n) /\ u.name = n
         /\ pc \notin {"load", "setup"}
<1> DEFINE G == /\ u.kind \in FileEvents => u.wd # 0 /\ u.wd = watchOf[u.name]
                /\ u.kind = "deleteSelf" => /\ u.by = "R"
                                            /\ \E n \in Names : RRemove(n) /\ u.name = n
                /\ pc \notin {"load", "setup"}
<1>1. /\ Stream \in Seq(EventType) /\ Range(Stream) = Happened
      /\ Stream' \in Seq(EventType) /\ Range(Stream') = Happened'
  BY StreamRange
<1>2. ASSUME NEW k \in 0 .. Len(Stream), Stream' = Drop(Stream, k) PROVE FALSE
  <2>1. Range(Stream') \subseteq Range(Stream)
    BY <1>1, <1>2, DroppedRange
  <2> QED
    BY <1>1, <2>1
<1>3. ASSUME NEW q \in Seq(EventType), Stream' = Stream \o q PROVE u \in Range(q)
  <2>1. Range(Stream') = Range(Stream) \cup Range(q)
    BY <1>1, <1>3, RangeFacts
  <2> QED
    BY <1>1, <2>1
<1>4. Stream' # Stream
  BY <1>1
<1>5. ASSUME NEW n \in Names, NEW by, NEW q, Writes(q, n, by), pc \notin {"load", "setup"}
      PROVE  G
  <2>1. u \in Range(q)
    BY <1>3, <1>5 DEF Writes
  <2> QED
    BY <1>5, <2>1 DEF Writes, About
<1>6. ASSUME NEW n \in Names, RRemove(n) PROVE G
  <2> DEFINE q == RemoveUnits(n)
  <2>1. Removes(q, n) /\ pc = "script"
    BY <1>6, RemovesQueue DEF RRemove
  <2> HIDE DEF q
  <2>2. u \in Range(q)
    BY <1>3, <2>1 DEF Removes
  <2> QED
    BY <1>6, <2>1, <2>2 DEF Removes
<1>7. ASSUME NEW n \in Names, RWrite(n) PROVE pc \notin {"load", "setup"}
  BY <1>7 DEF RWrite
<1>8. ASSUME noteInsert \/ noteUpdate PROVE pc \notin {"load", "setup"}
  BY <1>8 DEF noteInsert, noteUpdate, Noted
<1>9. ASSUME NEW k \in Nat, Ignored(k) PROVE FALSE
  BY <1>2, <1>9 DEF Ignored
<1>10. ASSUME NEW k \in {1, 2}, TookEvent(k) PROVE FALSE
  BY <1>2, <1>10 DEF TookEvent
<1> QED
  BY <1>4, <1>5, <1>6, <1>7, <1>8, <1>9, <1>10, StreamMoves

-----------------------------------------------------------------------------
(* Descriptors stay apart. *)

LEMMA StepNotWatchedYet ==
  ASSUME Typed, NotWatchedYet, [Next]_vars PROVE NotWatchedYet'
<1> SUFFICES ASSUME pc' \in {"load", "setup"}, NEW n \in Names PROVE watchOf'[n] = 0
  BY DEF NotWatchedYet
<1>1. CASE pc \in {"load", "setup"} /\ UNCHANGED watchOf
  BY <1>1 DEF NotWatchedYet
<1>2. CASE Startup
  BY <1>1, <1>2 DEF Startup, connect, setupInotify, listen
<1>3. CASE R
  BY <1>3 DEF R, StartScript, EndScript, RWrite, RRemove, findOrAddFile, session
<1>4. CASE Others
  BY <1>1, <1>4 DEF Others, ForeignInsert, ForeignUpdate, ForeignDelete, Foreign, session,
                    dirState
<1>5. CASE Inotify
  BY <1>5 DEF Inotify, handleInotifyEvent, CutName, CutLongName, CreateSkipped, CreateFailed,
      CreateInserted, NoEntry,
              CloseWrite, DeleteSelf, EndBatch, Event, session
<1>6. CASE Notifications
  BY <1>6 DEF Notifications, handleDBNotifications, noteUnknown, noteDelete, noteInsert,
              noteUpdate, EndNotes, Noted, session
<1>7. CASE handleIgnoreFSNotesOff \/ UNCHANGED vars
  BY <1>1, <1>7 DEF handleIgnoreFSNotesOff, vars, dirState, session
<1> QED
  BY <1>2, <1>3, <1>4, <1>5, <1>6, <1>7 DEF Next

LEMMA IdsGrow ==
  ASSUME Typed, [Next]_vars PROVE nextId <= nextId'
<1>0. nextId \in Nat
  BY DEF Typed, OutsideTyped
<1>1. CASE nextId' = nextId \/ nextId' = nextId + 1
  BY <1>0, <1>1
<1>2. CASE Startup
  BY <1>1, <1>2 DEF Startup, connect, setupInotify, listen, database
<1>3. CASE R
  BY <1>1, <1>3 DEF R, StartScript, EndScript, RWrite, RRemove, findOrAddFile, insertDBFile,
                    insertRefused, insertFails, database
<1>4. CASE Others
  BY <1>1, <1>4 DEF Others, ForeignInsert, ForeignUpdate, ForeignDelete
<1>5. CASE Inotify
  BY <1>1, <1>5 DEF Inotify, handleInotifyEvent, CutName, CutLongName, CreateSkipped,
      CreateFailed, CreateInserted,
       NoEntry, CloseWrite, DeleteSelf, EndBatch, insertDBFile, insertRefused, insertFails, database
<1>6. CASE Notifications
  BY <1>1, <1>6 DEF Notifications, handleDBNotifications, noteUnknown, noteDelete, noteInsert,
              noteUpdate, EndNotes, database
<1>7. CASE handleIgnoreFSNotesOff \/ UNCHANGED vars
  BY <1>1, <1>7 DEF handleIgnoreFSNotesOff, vars, database
<1> QED
  BY <1>2, <1>3, <1>4, <1>5, <1>6, <1>7 DEF Next

\* An id that was handed out keeps the name it has in the tables.
LEMMA NamedKept ==
  ASSUME Typed, CacheInv, [Next]_vars, NEW id, id \in Nat, id < nextId, NEW n, Named(id, n)
  PROVE  Named(id, n)'
<1>0. nextId \in Nat /\ id # nextId /\ Known = DOMAIN filesById
  BY DEF Typed, OutsideTyped, Known
<1>1. ASSUME id \in DOMAIN rows' PROVE rows'[id].name = n
  <2>1. CASE KeptNames
    BY <1>1, <2>1 DEF KeptNames, Named
  <2>2. CASE \E m \in Names : Added(m)
    BY <1>0, <1>1, <2>2 DEF Added, Named
  <2> QED
    BY <2>1, <2>2, RowsAndNotes DEF Taken, Told
<1>2. ASSUME id \in Known' PROVE filesById'[id].name = n
  <2>1. CASE connect
    <3>1. id \in DOMAIN rows /\ filesById'[id].name = rows[id].name
      BY <1>2, <2>1 DEF connect, Known
    <3> QED
      BY <3>1 DEF Named
  <2>2. CASE KeptFiles
    BY <1>2, <2>2 DEF KeptFiles, Named
  <2>3. CASE \E m \in Names : EnteredFile(nextId, m)
    BY <1>0, <1>2, <2>3 DEF EnteredFile, Named
  <2>4. CASE noted \in DOMAIN rows /\ EnteredFile(noted, rows[noted].name)
    BY <1>2, <2>4 DEF EnteredFile, Named
  <2> QED
    BY <2>1, <2>2, <2>3, <2>4, TableSteps
<1> QED
  BY <1>1, <1>2 DEF Named

\* A descriptor comes with the file that had it, or is new and given to one file.
LEMMA HoldsFrom ==
  ASSUME Typed, Typed', WatchesApart, QueueInv, [Next]_vars, ~setupInotify,
         NEW w \in Nat, NEW n \in Names, Holds(w, n)'
  PROVE  Holds(w, n) \/ (w = nextWd /\ watchOf'[n] = w /\ w # 0)
<1>0. w # 0 /\ n \in Dirs
  BY DEF Holds, Dirs
<1>1. ASSUME NEW u \in Happened', u.kind \in FileEvents, u.wd = w, u.name = n
      PROVE  Holds(w, n)
  <2>1. CASE u \in Happened
    BY <1>0, <1>1, <2>1 DEF Holds
  <2>2. CASE u \notin Happened
    BY <1>0, <1>1, <2>2, NewUnits DEF Holds
  <2> QED
    BY <2>1, <2>2
<1>2. ASSUME watchOf'[n] = w PROVE Holds(w, n) \/ w = nextWd
  <2>1. CASE WatchesLess
    <3>1. watchOf[n] = w
      BY <1>0, <1>2, <2>1 DEF WatchesLess
    <3> QED
      BY <1>0, <3>1 DEF Holds
  <2>2. ASSUME NEW files, NEW id, Watches(files, id) PROVE Holds(w, n) \/ w = nextWd
    <3>1. PICK wd \in Nat \ {0} : Gives(files, id, files[id].name, wd)
      BY <2>2, WatchGiven DEF Watches
    <3>2. CASE n = files[id].name
      <4>1. watchOf'[n] = wd
        BY <1>0, <3>1, <3>2 DEF Gives, Typed, OutsideTyped, Dirs
      <4> QED
        BY <1>0, <1>2, <3>1, <3>2, <4>1 DEF Gives, Holds
    <3>3. CASE n # files[id].name
      <4>1. watchOf'[n] = watchOf[n]
        BY <1>0, <3>1, <3>3 DEF Gives, Typed, OutsideTyped, Dirs
      <4> QED
        BY <1>0, <1>2, <4>1 DEF Holds
    <3> QED
      BY <3>2, <3>3
  <2> QED
    BY <2>1, <2>2, WatchSteps
<1> QED
  BY <1>0, <1>1, <1>2 DEF Holds

LEMMA WdsGrow ==
  ASSUME Typed, WatchesApart, [Next]_vars, ~setupInotify PROVE nextWd <= nextWd'
<1>0. nextWd \in Nat
  BY DEF Typed, OutsideTyped
<1>1. ASSUME NEW files, NEW id, Watches(files, id) PROVE nextWd <= nextWd'
  BY <1>1, WatchGiven DEF Watches, Gives
<1> QED
  BY <1>0, <1>1, WatchSteps DEF WatchesLess

LEMMA StepOneName ==
  ASSUME Typed, Typed', WatchesApart, WatchesApart', QueueInv, [Next]_vars, ~setupInotify,
         OneName
  PROVE  OneName'
<1> SUFFICES ASSUME NEW w \in Nat, NEW n \in Names, Holds(w, n)'
             PROVE  w < nextWd' /\ \A m \in Names : Holds(w, m)' => m = n
  BY DEF OneName
<1>0. nextWd \in Nat /\ nextWd' \in Nat /\ nextWd <= nextWd' /\ Names \subseteq Dirs
  BY WdsGrow DEF Typed, OutsideTyped, Dirs
<1>1. Holds(w, n) \/ (w = nextWd /\ watchOf'[n] = w /\ w # 0)
  BY HoldsFrom
<1>2. w < nextWd'
  <2>1. CASE Holds(w, n)
    BY <1>0, <2>1 DEF OneName
  <2>2. CASE watchOf'[n] = w
    BY <1>0, <2>2 DEF WatchesApart, Apart
  <2> QED
    BY <1>1, <2>1, <2>2
<1>3. ASSUME NEW m \in Names, Holds(w, m)' PROVE m = n
  <2>1. Holds(w, m) \/ (w = nextWd /\ watchOf'[m] = w /\ w # 0)
    BY <1>3, HoldsFrom
  <2>2. \A k \in Names : Holds(w, k) => w < nextWd
    BY DEF OneName
  <2>3. CASE Holds(w, n) /\ Holds(w, m)
    BY <2>3 DEF OneName
  <2>4. CASE w = nextWd /\ watchOf'[m] = w /\ watchOf'[n] = w /\ w # 0
    BY <1>0, <2>4 DEF WatchesApart, Apart
  <2> QED
    BY <1>0, <1>1, <2>1, <2>2, <2>3, <2>4
<1> QED
  BY <1>2, <1>3

LEMMA StepEntriesNamed ==
  ASSUME Typed, Typed', CacheInv, CacheInv', WatchesApart, QueueInv, [Next]_vars,
         ~setupInotify, OneName, OneName', EntriesNamed
  PROVE  EntriesNamed'
<1>0. /\ nextId \in Nat /\ nextId' \in Nat /\ nextId <= nextId' /\ nextWd \in Nat
      /\ \A w \in DOMAIN byWd : w \in Nat /\ byWd[w] \in Nat
      /\ \A w \in DOMAIN byWd' : w \in Nat /\ byWd'[w] \in Nat
  BY IdsGrow DEF Typed, OutsideTyped, TablesTyped, EntriesTyped
<1> SUFFICES ASSUME NEW w \in DOMAIN byWd', NEW e, e = byWd'[w]
             PROVE  e < nextId' /\ \A n \in Names : Holds(w, n)' => Named(e, n)'
  BY DEF EntriesNamed, Named
<1>1. w \in Nat /\ e \in Nat
  BY <1>0
<1>2. ASSUME w \in DOMAIN byWd, e = byWd[w],
             \A n \in Names : watchOf'[n] = w => watchOf[n] = w
      PROVE  e < nextId' /\ \A n \in Names : Holds(w, n)' => Named(e, n)'
  <2>1. e < nextId /\ e < nextId'
    BY <1>0, <1>1, <1>2 DEF EntriesNamed
  <2>2. ASSUME NEW n \in Names, Holds(w, n)' PROVE Named(e, n)'
    <3>1. Holds(w, n)
      <4>1. Holds(w, n) \/ (watchOf[n] = w /\ w # 0)
        BY <1>1, <1>2, <2>2, HoldsFrom
      <4> QED
        BY <4>1 DEF Holds
    <3>2. Named(e, n)
      BY <1>2, <3>1 DEF EntriesNamed, Named
    <3> QED
      BY <1>1, <2>1, <3>2, NamedKept
  <2> QED
    BY <2>1, <2>2
<1>3. CASE WatchesLess
  <2>1. w \in DOMAIN byWd /\ e = byWd[w]
    BY <1>3 DEF WatchesLess
  <2>3. \A n \in Names : watchOf'[n] = w /\ w # 0 => watchOf[n] = w
    BY <1>3 DEF WatchesLess, Dirs
  <2>4. CASE w # 0
    BY <1>2, <2>1, <2>3, <2>4
  <2>5. CASE w = 0
    <3>1. \A n \in Names : ~Holds(w, n)'
      BY <2>5 DEF Holds
    <3>2. e < nextId'
      BY <1>0, <1>1, <2>1 DEF EntriesNamed
    <3> QED
      BY <3>1, <3>2
  <2> QED
    BY <2>4, <2>5
<1>4. ASSUME NEW files, NEW id, Watches(files, id)
      PROVE  e < nextId' /\ \A n \in Names : Holds(w, n)' => Named(e, n)'
  <2> DEFINE m == files[id].name
  <2>1. PICK wd \in Nat \ {0} : Gives(files, id, m, wd)
    BY <1>4, WatchGiven DEF Watches
  <2>2. m \in Names /\ m \in Dirs /\ watchOf \in [Dirs -> Nat]
    BY <1>4 DEF Watches, FilesTyped, FileInfo, Dirs, Typed, OutsideTyped
  <2>3. /\ id \in Known' /\ filesById'[id].name = m
    BY <1>4, WatchedTable DEF Watches
  <2> HIDE DEF m
  <2>4. /\ watchOf' = [watchOf EXCEPT ![m] = wd] /\ byWd' = With(byWd, wd, id)
    BY <2>1 DEF Gives
  <2>5. CASE w = wd
    <3>1. e = id
      BY <2>4, <2>5 DEF With
    <3>2. Holds(w, m)'
      <4>1. watchOf'[m] = w /\ w # 0
        BY <2>2, <2>4, <2>5
      <4> QED
        BY <4>1 DEF Holds
    <3>3. /\ e < nextId'
          /\ e \in DOMAIN rows' => rows'[e].name = m
      BY <2>3, <3>1 DEF CacheInv, SameNames, Known
    <3>4. Named(e, m)'
      BY <2>3, <3>1, <3>3 DEF Named
    <3>5. \A n \in Names : Holds(w, n)' => n = m
      BY <1>1, <2>2, <3>2 DEF OneName
    <3> QED
      BY <3>3, <3>4, <3>5
  <2>6. CASE w # wd
    <3>1. w \in DOMAIN byWd /\ e = byWd[w]
      BY <2>4, <2>6 DEF With
    <3>2. \A n \in Names : watchOf'[n] = w => watchOf[n] = w
      BY <2>2, <2>4, <2>6 DEF Dirs
    <3> QED
      BY <1>2, <3>1, <3>2
  <2> QED
    BY <2>5, <2>6
<1> QED
  BY <1>3, <1>4, WatchSteps

LEMMA StepEventWds ==
  ASSUME Typed, Typed', QueueInv, [Next]_vars, EventWds PROVE EventWds'
<1> SUFFICES ASSUME NEW u \in Happened', u.kind \in FileEvents PROVE u.wd # 0
  BY DEF EventWds
<1> QED
  BY NewUnits DEF EventWds

LEMMA StepRemovedUnwatched ==
  ASSUME Typed, Typed', WatchesApart, QueueInv, [Next]_vars, ~setupInotify,
         OneName, EventWds, RemovedUnwatched
  PROVE  RemovedUnwatched'
<1> SUFFICES ASSUME NEW u \in Happened', u.kind = "deleteSelf"
             PROVE  u.by = "R" /\ \A n \in Names : watchOf'[n] # u.wd
  BY DEF RemovedUnwatched
<1>0. /\ watchOf \in [Dirs -> Nat] /\ nextWd \in Nat /\ Names \subseteq Dirs
      /\ u.name \in Names /\ u.kind \in FileEvents /\ u.wd \in Nat
  <2>1. u \in EventType
    BY StreamRange DEF Range
  <2> QED
    BY <2>1 DEF Typed, OutsideTyped, Dirs, EventType, FileEvents
<1>1. CASE u \in Happened
  <2>1. u.by = "R" /\ \A n \in Names : watchOf[n] # u.wd
    BY <1>1 DEF RemovedUnwatched
  <2>2. u.wd # 0 /\ u.wd < nextWd
    <3>1. Holds(u.wd, u.name)
      BY <1>0, <1>1 DEF Holds, EventWds
    <3> QED
      BY <1>0, <1>1, <3>1 DEF OneName, EventWds
  <2>3. ASSUME NEW n \in Names, watchOf'[n] = u.wd PROVE FALSE
    <3>1. CASE WatchesLess
      BY <1>0, <2>1, <2>2, <2>3, <3>1 DEF WatchesLess
    <3>2. ASSUME NEW files, NEW id, Watches(files, id) PROVE FALSE
      <4> DEFINE m == files[id].name
      <4>1. PICK wd \in Nat \ {0} : Gives(files, id, m, wd)
        BY <3>2, WatchGiven DEF Watches
      <4> HIDE DEF m
      <4>2. watchOf' = [watchOf EXCEPT ![m] = wd] /\ (wd = watchOf[m] \/ wd = nextWd)
        BY <4>1 DEF Gives
      <4> QED
        BY <1>0, <2>1, <2>2, <2>3, <4>2
    <3> QED
      BY <3>1, <3>2, WatchSteps
  <2> QED
    BY <2>1, <2>3
<1>2. CASE u \notin Happened
  <2>1. u.wd # 0 /\ u.wd = watchOf[u.name] /\ u.by = "R" /\ RRemove(u.name)
    BY <1>0, <1>2, NewUnits
  <2>2. watchOf' = [watchOf EXCEPT ![u.name] = 0]
    BY <2>1 DEF RRemove
  <2>3. \A n \in Names : watchOf[n] = u.wd => n = u.name
    BY <1>0, <2>1 DEF WatchesApart, Apart
  <2> QED
    BY <1>0, <2>1, <2>2, <2>3
<1> QED
  BY <1>1, <1>2

LEMMA StepRemovedLast ==
  ASSUME Typed, Typed', QueueInv, [Next]_vars, RemovedUnwatched, RemovedLast(Stream)
  PROVE  RemovedLast(Stream')
<1>1. Stream \in Seq(EventType) /\ Range(Stream) = Happened
  BY StreamRange
<1>2. ASSUME NEW k \in 0 .. Len(Stream), Stream' = Drop(Stream, k) PROVE RemovedLast(Stream')
  BY <1>1, <1>2, RemovalsDropped
<1>3. ASSUME NEW q \in Seq(EventType), Stream' = Stream \o q, RemovedLast(q), NEW n \in Names,
             \A v \in Range(q) : v.kind \in FileEvents => v.wd = watchOf[n]
      PROVE  RemovedLast(Stream')
  <2>1. \A u \in Range(Stream), v \in Range(q) :
          u.kind = "deleteSelf" /\ v.kind \in FileEvents => u.wd # v.wd
    BY <1>1, <1>3 DEF RemovedUnwatched
  <2> QED
    BY <1>1, <1>3, <2>1, RemovalsQueued
<1>4. ASSUME NEW n \in Names, NEW by, NEW q, Writes(q, n, by) PROVE RemovedLast(Stream')
  <2>1. q \in Seq(EventType) /\ \A i \in DOMAIN q : q[i] \in Range(q)
    BY <1>4 DEF Writes, Range
  <2>2. RemovedLast(q)
    BY <1>4, <2>1 DEF Writes, RemovedLast
  <2>3. Stream' = Stream \o q /\ \A v \in Range(q) : v.kind \in FileEvents => v.wd = watchOf[n]
    BY <1>4 DEF Writes, About
  <2> QED
    BY <1>3, <2>1, <2>2, <2>3
<1>5. ASSUME NEW n \in Names, NEW q, Removes(q, n) PROVE RemovedLast(Stream')
  BY <1>3, <1>5 DEF Removes
<1>6. ASSUME NEW k \in Nat, Ignored(k) PROVE RemovedLast(Stream')
  BY <1>2, <1>6 DEF Ignored
<1>7. ASSUME NEW k \in {1, 2}, TookEvent(k) PROVE RemovedLast(Stream')
  BY <1>2, <1>7 DEF TookEvent
<1> QED
  BY <1>4, <1>5, <1>6, <1>7, StreamMoves

\* The first watches: one for each file that was loaded.
LEMMA SetUpDescriptors ==
  ASSUME Typed, Typed', CacheInv, CacheInv', WatchesApart', QueueInv, QueueInv', DescriptorInv,
         setupInotify, [Next]_vars
  PROVE  DescriptorInv'
<1>1. /\ Happened' = {} /\ pc' = "listen" /\ nextWd' \in Nat /\ nextId' \in Nat
      /\ UNCHANGED <<fsQueues, rows, nextId>> /\ Names \subseteq Dirs
  BY DEF setupInotify, DescriptorInv, NothingYet, Happened, fsQueues, Range, Typed, OutsideTyped,
         database, Dirs
<1>2. Stream' \in Seq(EventType) /\ Range(Stream') = {}
  BY <1>1, StreamRange
<1>3. DOMAIN Stream' = {}
  BY <1>2 DEF Range
<1>4. ASSUME NEW w \in Nat, NEW n \in Names, Holds(w, n)'
      PROVE  w # 0 /\ watchOf'[n] = w
  BY <1>1, <1>4 DEF Holds
<1>5. OneName'
  <2> SUFFICES ASSUME NEW w \in Nat, NEW n \in Names, Holds(w, n)'
               PROVE  w < nextWd' /\ \A m \in Names : Holds(w, m)' => m = n
    BY DEF OneName
  <2>1. w # 0 /\ watchOf'[n] = w /\ \A m \in Names : Holds(w, m)' => watchOf'[m] = w
    BY <1>4
  <2> QED
    BY <1>1, <2>1 DEF WatchesApart, Apart
<1>6. EntriesNamed'
  <2>1. PICK rank : SetUp(rank)
    BY SetUpGives
  <2> SUFFICES ASSUME NEW w \in DOMAIN byWd', NEW e, e = byWd'[w]
               PROVE  e < nextId' /\ \A n \in Names : Holds(w, n)' => Named(e, n)'
    BY DEF EntriesNamed, Named
  <2>2. w \in Nat
    BY DEF Typed, TablesTyped, EntriesTyped
  <2>3. PICK id \in Known : w = rank[id]
    BY <2>1 DEF SetUp
  <2>4. e = id /\ Known' = Known /\ \A jd \in Known : rank[jd] = w => jd = id
    BY <2>1, <2>3 DEF SetUp
  <2>5. e < nextId'
    BY <2>4 DEF CacheInv, SameNames, Known
  <2>6. ASSUME NEW n \in Names, Holds(w, n)' PROVE Named(e, n)'
    <3>1. w # 0 /\ watchOf'[n] = w
      BY <1>4, <2>2, <2>6
    <3>2. PICK jd \in Known : filesById[jd].name = n /\ watchOf'[n] = rank[jd]
      BY <2>1, <3>1 DEF SetUp
    <3>3. jd = e
      BY <2>4, <3>1, <3>2
    <3>4. filesById'[e].name = n /\ e \in Known'
      BY <2>1, <2>4, <3>2, <3>3 DEF SetUp
    <3>5. e \in DOMAIN rows' => rows'[e].name = n
      BY <3>4 DEF CacheInv, SameNames, Known
    <3> QED
      BY <3>4, <3>5 DEF Named
  <2> QED
    BY <2>5, <2>6
<1>7. RemovedUnwatched' /\ EventWds' /\ NothingYet' /\ NotWatchedYet'
  BY <1>1 DEF RemovedUnwatched, EventWds, NothingYet, NotWatchedYet
<1>8. RemovedLast(Stream')
  BY <1>3 DEF RemovedLast
<1>9. RemovedLast(Stream)'
  BY <1>8
<1> QED
  BY <1>5, <1>6, <1>7, <1>9 DEF DescriptorInv

LEMMA StepDescriptors ==
  ASSUME Typed, Typed', CacheInv, CacheInv', WatchesApart, WatchesApart', QueueInv, QueueInv',
         DescriptorInv, [Next]_vars
  PROVE  DescriptorInv'
<1>1. CASE setupInotify
  BY <1>1, SetUpDescriptors
<1>2. CASE ~setupInotify
  <2>1. /\ OneName /\ EntriesNamed /\ RemovedUnwatched /\ RemovedLast(Stream)
        /\ NotWatchedYet /\ EventWds /\ NothingYet
    BY DEF DescriptorInv
  <2>2. OneName'
    BY <1>2, <2>1, StepOneName
  <2>3. EntriesNamed'
    BY <1>2, <2>1, <2>2, StepEntriesNamed
  <2>4. RemovedUnwatched'
    BY <1>2, <2>1, StepRemovedUnwatched
  <2>5. RemovedLast(Stream')
    BY <2>1, StepRemovedLast
  <2>6. RemovedLast(Stream)'
    BY <2>5
  <2>7. NotWatchedYet' /\ EventWds' /\ NothingYet'
    BY <2>1, StepNotWatchedYet, StepEventWds, StepNothingYet
  <2> QED
    BY <2>2, <2>3, <2>4, <2>6, <2>7 DEF DescriptorInv
<1> QED
  BY <1>1, <1>2

LEMMA InitDescriptors == Init => DescriptorInv
<1> SUFFICES ASSUME Init PROVE DescriptorInv
  OBVIOUS
<1>1. /\ Happened = {} /\ byWd = <<>> /\ \A n \in Names : watchOf[n] = 0
      /\ batch = <<>> /\ input = <<>> /\ kernelQ = <<>>
  BY DEF Init, Happened, Range
<1>2. Stream = <<>>
  BY <1>1 DEF Stream
<1>3. RemovedLast(Stream)
  BY <1>2 DEF RemovedLast
<1>4. \A w, n : n \in Names => ~Holds(w, n)
  BY <1>1 DEF Holds
<1> QED
  BY <1>1, <1>3, <1>4 DEF DescriptorInv, OneName, EntriesNamed, RemovedUnwatched, NotWatchedYet,
                          EventWds, NothingYet

-----------------------------------------------------------------------------
(* The files that the directory must follow, and what keeps them following. *)

\* An event of what R did to n is still to be processed.
Ran(kind, n) == \E u \in Happened : u.kind = kind /\ u.name = n /\ u.by = "R"
Heard(n) == \E u \in Happened : u.name = n /\ u.by = "R"

\* The notification of n's deletion is in the round being processed, before an event
\* of R's that an earlier read left.
Doomed(n) ==
  /\ pc = "notes" /\ Heard(n)
  /\ \E m \in Range(notes) : m.op = "d" /\ m.id \in Known /\ m.name = n

Followed(n) == n \in Names /\ n \notin excused \cup outrun /\ ~Doomed(n)

\* The entry of w, if there is one, leads to n's file, which is watched under w.
Leads(w, n) ==
  w \in DOMAIN byWd =>
    byWd[w] \in Known /\ filesById[byWd[w]].name = n /\ filesById[byWd[w]].wd = w

WatchLeads(n) ==
  watchOf[n] # 0 => /\ Leads(watchOf[n], n)
                    /\ \E id \in Known : filesById[id].name = n /\ filesById[id].wd = watchOf[n]

EventsLead(n) ==
  \A u \in Happened : u.kind \in FileEvents /\ u.by = "R" /\ u.name = n => Leads(u.wd, n)

\* What findOrAddFile added is known and unwatched until the script ends, and no event
\* that was queued before concerns it.
AddedByHand(n) ==
  n \in manual =>
    /\ pc = "script" => n \in KnownNames /\ watchOf[n] = 0
    /\ n \in KnownNames \/ ~Ran("create", n)
    /\ \A u \in Happened : u.kind = "deleteSelf" /\ u.name = n => u.wd \notin DOMAIN byWd

Led(n) == /\ WatchLeads(n) /\ EventsLead(n) /\ AddedByHand(n)
          /\ n \in Present => Again(Stream, n)

\* A notification about n that will be acted on.
Effective(n) == \E m \in Said : m.name = n /\ (m.op = "i" \/ m.id \in Known)
Matches(n) == \E id \in DOMAIN rows : rows[id].name = n /\ rows[id].data = disk[n]

Agreed(n) ==
  \/ Effective(n)
  \/ /\ n \in Present /\ n \in KnownNames
     /\ Matches(n) \/ Ran("closeWrite", n) \/ Ran("deleteSelf", n)
  \/ n \in Present /\ n \notin KnownNames /\ Ran("create", n)
  \/ n \notin Present /\ (n \notin RowNames \/ Ran("deleteSelf", n))

DiskInv == Serving => \A n \in Names : Followed(n) => Led(n) /\ Agreed(n)

Base == Everything /\ OwnEventsOnly /\ DescriptorInv

LEMMA OutrunGrows == ASSUME [Next]_vars PROVE outrun \subseteq outrun'
<1>1. CASE UNCHANGED outrun \/ \E n : Outruns(n)
  BY <1>1 DEF Outruns
<1>2. CASE Startup
  BY <1>1, <1>2 DEF Startup, connect, setupInotify, listen, history
<1>3. CASE R
  BY <1>1, <1>3 DEF R, StartScript, EndScript, RWrite, RRemove, findOrAddFile, history
<1>4. CASE Others
  BY <1>1, <1>4 DEF Others, ForeignInsert, ForeignUpdate, ForeignDelete, Foreign
<1>5. CASE Inotify
  BY <1>1, <1>5 DEF Inotify, handleInotifyEvent, CutName, CutLongName, CreateSkipped,
      CreateFailed, CreateInserted, NoEntry,
              CloseWrite, DeleteSelf, EndBatch, history
<1>6. CASE Notifications
  <2>1. CASE handleDBNotifications \/ noteUnknown \/ EndNotes
    BY <1>1, <2>1 DEF handleDBNotifications, noteUnknown, EndNotes, history
  <2>2. CASE noteDelete
    BY <1>1, <2>2 DEF noteDelete
  <2>3. CASE noteUpdate
    BY <1>1, <2>3 DEF noteUpdate, writeFile
  <2>4. CASE noteInsert
    BY <1>1, <2>4 DEF noteInsert, writeFile
  <2> QED
    BY <1>6, <2>1, <2>2, <2>3, <2>4 DEF Notifications
<1>7. CASE handleIgnoreFSNotesOff \/ UNCHANGED vars
  BY <1>1, <1>7 DEF handleIgnoreFSNotesOff, vars, history
<1> QED
  BY <1>2, <1>3, <1>4, <1>5, <1>6, <1>7 DEF Next

\* Only its own handler takes a notification.
Handled == noteUnknown \/ noteDelete \/ noteInsert \/ noteUpdate

LEMMA SaidKept ==
  ASSUME Typed, [Next]_vars, NEW m \in Said
  PROVE  m \in Said' \/ (Handled /\ pc = "notes" /\ notes # <<>> /\ m = Head(notes))
<1>1. CASE UNCHANGED dbQueues
  BY <1>1 DEF dbQueues, Said, Notified
<1>2. ASSUME NEW own \in Seq(Note), Absorb(own) PROVE m \in Said'
  BY <1>2, AbsorbSays
<1>3. <<>> \in Seq(Note)
  OBVIOUS
<1>4. ASSUME NEW op \in {"i", "u", "d"}, NEW id \in DOMAIN rows PROVE <<NoteOf(op, id)>> \in Seq(Note)
  BY NoteOfTypes
<1>5. ASSUME NEW n \in Names, insertDBFile(n) \/ insertRefused(n) PROVE m \in Said'
  <2>1. <<[op |-> "i", id |-> nextId, name |-> n]>> \in Seq(Note)
    BY NoteTypes DEF Typed, OutsideTyped
  <2> QED
    BY <1>2, <1>3, <1>5, <2>1 DEF insertDBFile, insertRefused, insertFails
<1>6. CASE Startup
  BY <1>1, <1>6 DEF Startup, connect, setupInotify, listen
<1>7. CASE R
  BY <1>1, <1>5, <1>7 DEF R, StartScript, EndScript, RWrite, RRemove, findOrAddFile
<1>8. CASE Others
  <2>1. ASSUME NEW op \in {"i", "u", "d"}, NEW id \in Nat, NEW n \in Names, Foreign(op, id, n)
        PROVE  m \in Said'
    BY <2>1, ForeignSays
  <2>2. /\ nextId \in Nat /\ \A id \in DOMAIN rows : id \in Nat /\ rows[id].name \in Names
    BY DEF Typed, OutsideTyped, RowsTyped, RowType
  <2> QED
    BY <1>8, <2>1, <2>2 DEF Others, ForeignInsert, ForeignUpdate, ForeignDelete
<1>9. CASE Inotify
  <2>1. CASE handleInotifyEvent \/ CutName \/ CreateSkipped \/ NoEntry \/ EndBatch
    BY <1>1, <2>1 DEF handleInotifyEvent, CutName, CreateSkipped, NoEntry, EndBatch
  <2>5. CASE CutLongName \/ CreateFailed
    <3>1. UNCHANGED dbQueues \/ Absorb(<<>>)
      BY <2>5 DEF CutLongName, CreateFailed, insertFails
    <3> QED
      BY <1>1, <1>2, <1>3, <3>1
  <2>2. CASE CreateInserted
    <3>1. Head(batch).name \in Names
      BY <2>2 DEF CreateInserted, Typed, OutsideTyped, DiskTyped, Present
    <3> QED
      BY <1>5, <2>2, <3>1 DEF CreateInserted
  <2>3. CASE CloseWrite
    <3>1. \/ UNCHANGED dbQueues \/ Absorb(<<>>)
          \/ \E id : id \in DOMAIN rows /\ Absorb(<<NoteOf("u", id)>>)
      BY <2>3 DEF CloseWrite, updateDBFile
    <3> QED
      BY <1>1, <1>2, <1>3, <1>4, <3>1
  <2>4. CASE DeleteSelf
    <3>1. \/ Absorb(<<>>)
          \/ \E id : id \in DOMAIN rows /\ Absorb(<<NoteOf("d", id)>>)
      <4>1. \/ Absorb(<<>>) \/ removeDBFile(byWd[Head(batch).wd])
        BY <2>4 DEF DeleteSelf
      <4> QED
        BY <4>1 DEF removeDBFile
    <3> QED
      BY <1>2, <1>3, <1>4, <3>1
  <2> QED
    BY <1>9, <2>1, <2>2, <2>3, <2>4, <2>5 DEF Inotify
<1>10. CASE Notifications
  <2>1. CASE handleDBNotifications
    BY <1>2, <1>3, <2>1 DEF handleDBNotifications
  <2>2. CASE EndNotes
    BY <1>1, <2>2 DEF EndNotes
  <2>3. CASE Handled
    <3>1. pc = "notes" /\ notes # <<>> /\ (Reload \/ (notes' = Tail(notes) /\ wire' = wire))
      BY <2>3 DEF Handled, noteUnknown, noteDelete, noteInsert, noteUpdate, Noted
    <3>2. Said \ {Head(notes)} \subseteq Said'
      BY <3>1, TakenSays
    <3> QED
      BY <2>3, <3>1, <3>2
  <2> QED
    BY <1>10, <2>1, <2>2, <2>3 DEF Notifications, Handled
<1>11. CASE handleIgnoreFSNotesOff \/ UNCHANGED vars
  BY <1>1, <1>11 DEF handleIgnoreFSNotesOff, vars
<1> QED
  BY <1>6, <1>7, <1>8, <1>9, <1>10, <1>11 DEF Next

\* An event of R's comes from R.
LEMMA NewByR ==
  ASSUME Typed, Typed', QueueInv, [Next]_vars, NEW u \in Happened', u \notin Happened, u.by = "R"
  PROVE  u.name \in Names /\ (RWrite(u.name) \/ RRemove(u.name))
<1>1. /\ Stream \in Seq(EventType) /\ Range(Stream) = Happened
      /\ Stream' \in Seq(EventType) /\ Range(Stream') = Happened'
  BY StreamRange
<1>2. ASSUME NEW k \in 0 .. Len(Stream), Stream' = Drop(Stream, k) PROVE FALSE
  <2>1. Range(Stream') \subseteq Range(Stream)
    BY <1>1, <1>2, DroppedRange
  <2> QED
    BY <1>1, <2>1
<1>3. ASSUME NEW q \in Seq(EventType), Stream' = Stream \o q PROVE u \in Range(q)
  <2>1. Range(Stream') = Range(Stream) \cup Range(q)
    BY <1>1, <1>3, RangeFacts
  <2> QED
    BY <1>1, <2>1
<1>4. ASSUME NEW n \in Names, NEW by, NEW q, Writes(q, n, by) PROVE u.name = n /\ by = "R"
  BY <1>3, <1>4 DEF Writes, About
<1>5. ASSUME NEW n \in Names, NEW q, Removes(q, n) PROVE u.name = n
  BY <1>3, <1>5 DEF Removes
<1>6. ASSUME NEW k \in Nat, Ignored(k) PROVE FALSE
  BY <1>2, <1>6 DEF Ignored
<1>7. ASSUME NEW k \in {1, 2}, TookEvent(k) PROVE FALSE
  BY <1>2, <1>7 DEF TookEvent
<1> QED
  BY <1>1, <1>4, <1>5, <1>6, <1>7, StreamMoves

\* An event of R's leaves the stream only when its branch takes it, or is lost.
LEMMA RKept ==
  ASSUME Typed, Typed', QueueInv, [Next]_vars, NEW u \in Happened, u.by = "R"
  PROVE  \/ u \in Happened' \/ u.name \in excused'
         \/ pc = "inotify" /\ batch # <<>> /\ (u = Head(batch) \/ u.kind = "name")
<1>1. /\ Stream \in Seq(EventType) /\ Range(Stream) = Happened
      /\ Stream' \in Seq(EventType) /\ Range(Stream') = Happened'
  BY StreamRange
<1>2. ASSUME NEW k \in {1, 2}, TookEvent(k), u \notin Happened'
      PROVE  pc = "inotify" /\ batch # <<>> /\ (u = Head(batch) \/ u.kind = "name")
  <2>1. PICK i \in 1 .. k : u = Stream[i]
    BY <1>1, <1>2, DroppedRange DEF TookEvent
  <2>2. CASE i = 1
    BY <1>2, <2>1, <2>2 DEF TookEvent
  <2>3. CASE i = 2
    <3>1. k = 2 /\ 1 \in DOMAIN Stream /\ Stream[1].kind = "create"
      BY <1>2, <2>1, <2>3 DEF TookEvent
    <3>2. Stream[1 + 1].kind = "name"
      BY <3>1 DEF QueueInv, Paired
    <3> QED
      BY <1>2, <2>1, <2>3, <3>2 DEF TookEvent
  <2> QED
    BY <2>1, <2>2, <2>3
<1>3. ASSUME NEW k \in Nat, Ignored(k), u \notin Happened' PROVE u.name \in excused'
  <2>1. PICK i \in 1 .. k : u = Stream[i]
    BY <1>1, <1>3, DroppedRange DEF Ignored
  <2> QED
    BY <1>3, <2>1 DEF Ignored
<1>4. ASSUME NEW q \in Seq(EventType), Stream' = Stream \o q PROVE u \in Happened'
  <2>1. Range(Stream') = Range(Stream) \cup Range(q)
    BY <1>1, <1>4, RangeFacts
  <2> QED
    BY <1>1, <2>1
<1>5. ASSUME NEW n \in Names, NEW by, NEW q, Writes(q, n, by) PROVE u \in Happened'
  BY <1>4, <1>5 DEF Writes
<1>6. ASSUME NEW n \in Names, NEW q, Removes(q, n) PROVE u \in Happened'
  BY <1>4, <1>6 DEF Removes
<1> QED
  BY <1>1, <1>2, <1>3, <1>5, <1>6, StreamMoves

LEMMA AgainKept ==
  ASSUME Typed, Typed', QueueInv, [Next]_vars, NEW n \in Names, ~RRemove(n), Again(Stream, n)
  PROVE  Again(Stream', n)
<1>1. Stream \in Seq(EventType)
  BY StreamRange
<1>2. ASSUME NEW k \in 0 .. Len(Stream), Stream' = Drop(Stream, k) PROVE Again(Stream', n)
  BY <1>1, <1>2, RemovalsDropped
<1>3. ASSUME NEW q \in Seq(EventType), Stream' = Stream \o q,
             \A v \in Range(q) : v.kind # "deleteSelf" \/ v.name # n
      PROVE  Again(Stream', n)
  BY <1>1, <1>3, RemovalsQueued
<1>4. ASSUME NEW m, NEW by, NEW q, Writes(q, m, by) PROVE Again(Stream', n)
  BY <1>3, <1>4 DEF Writes
<1>5. ASSUME NEW m \in Names, NEW q, m # n, Removes(q, m) PROVE Again(Stream', n)
  BY <1>3, <1>5 DEF Removes
<1>6. ASSUME NEW k \in Nat, Ignored(k) PROVE Again(Stream', n)
  BY <1>2, <1>6 DEF Ignored
<1>7. ASSUME NEW k \in {1, 2}, TookEvent(k) PROVE Again(Stream', n)
  BY <1>2, <1>7 DEF TookEvent
<1> QED
  BY <1>4, <1>5, <1>6, <1>7, StreamMoves

\* A notification that changes a file leaves nothing of R's about it to be processed,
\* or the file is no longer followed.
LEMMA NothingLeft ==
  ASSUME Base, Typed', [Next]_vars, noteDelete \/ noteInsert \/ noteUpdate, alive',
         NEW n, n = Head(notes).name, Followed(n)'
  PROVE  ~Heard(n)'
<1> SUFFICES ASSUME NEW u \in Happened', u.name = n, u.by = "R" PROVE FALSE
  BY DEF Heard
<1>0. /\ Typed /\ CacheInv /\ QueueInv /\ OwnEventsOnly
  BY DEF Base, Everything
<1>1. /\ pc = "notes" /\ notes # <<>> /\ batch = <<>> /\ n \in Names
      /\ n \notin excused' /\ n \notin outrun' /\ ~Doomed(n)'
  BY <1>0 DEF noteDelete, noteInsert, noteUpdate, Noted, QueueInv, Followed
<1>2. u \in Happened
  BY <1>0, <1>1, NewByR DEF RWrite, RRemove
<1>3. u \in Range(input)
  BY <1>0, <1>1, <1>2 DEF Happened, OwnEventsOnly, Range
<1>4. ~Outruns(n)
  BY <1>1, <1>3 DEF Outruns
<1>5. /\ Head(notes) \in Said /\ noted = Head(notes).id
      /\ \A m \in Said : m.id \in Known => filesById[m.id].name = m.name
      /\ \A m \in Said : m.id \in DOMAIN rows => rows[m.id].name = m.name
      /\ \A id \in Known \ DOMAIN rows : filesById[id].name \in excused \/ SaidOf(Said, id, {"d"})
  <2>1. Head(notes) \in Said
    <3>1. notes \in Seq(Note) /\ Notified \in Seq(Note) /\ Notified[1] = Head(notes)
          /\ 1 \in DOMAIN Notified
      BY <1>0, <1>1 DEF Typed, QueuesTyped, Notified
    <3> QED
      BY <3>1 DEF Said, Range
  <2> QED
    BY <1>0, <1>1, <2>1 DEF CacheInv, SameNames, Mended, Known, noted
<1>6. ~noteDelete
  BY <1>4, <1>5 DEF noteDelete
<1>7. ASSUME noted \in Known, noted \notin DOMAIN rows, Head(notes).op # "d", Reload,
             filesById' = filesById \/ DOMAIN filesById' = DOMAIN filesById, pc' = pc
      PROVE  FALSE
  <2>1. filesById[noted].name = n
    BY <1>1, <1>5, <1>7
  <2>2. n \notin excused
    BY <1>1, ExcusedGrows DEF connect
  <2>3. PICK m \in Said : m.id = noted /\ m.op = "d"
    BY <1>5, <1>7, <2>1, <2>2 DEF SaidOf
  <2>4. m \in Said' /\ m.name = n
    <3>1. Said \ {Head(notes)} \subseteq Said'
      BY <1>0, <1>1, <1>7, TakenSays
    <3> QED
      BY <1>5, <1>7, <2>1, <2>3, <3>1
  <2>5. m \in Range(notes')
    <3>1. notes' \in Seq(Note) /\ wire' = <<>>
      BY <1>7 DEF Reload, Typed, QueuesTyped
    <3>2. notes' \o wire' = notes'
      BY <3>1
    <3> QED
      BY <2>4, <3>2 DEF Said, Notified
  <2>6. m.id \in Known'
    BY <1>7, <2>3 DEF Known
  <2>7. Heard(n)'
    BY DEF Heard
  <2> QED
    BY <1>1, <1>7, <2>3, <2>4, <2>5, <2>6, <2>7 DEF Doomed
<1>8. CASE noteUpdate
  <2>1. PICK ok \in BOOLEAN :
          /\ excused' = IF ok THEN excused ELSE excused \cup {Head(notes).name}
          /\ IF ok /\ noted \in DOMAIN rows THEN writeFile(rows[noted].name, rows[noted].data)
             ELSE filesById' = filesById
    BY <1>8 DEF noteUpdate
  <2>2. ok
    BY <1>1, <2>1
  <2>3. noted \notin DOMAIN rows
    BY <1>4, <1>5, <2>1, <2>2 DEF writeFile
  <2> QED
    BY <1>7, <1>8, <2>1, <2>3 DEF noteUpdate, Noted, session
<1>9. CASE noteInsert
  <2>1. PICK ok \in BOOLEAN :
          /\ excused' = IF ok THEN excused ELSE excused \cup {Head(notes).name}
          /\ CASE ok /\ noted \in DOMAIN rows ->
                    writeFile(rows[noted].name, rows[noted].data)
               [] ~(ok /\ noted \in DOMAIN rows) /\ noted \in Known ->
                    /\ watchFile(noted, filesById) \/ UNCHANGED filesById
                    /\ pc' = pc
               [] OTHER -> alive' = FALSE
    BY <1>9 DEF noteInsert
  <2>2. ok
    BY <1>1, <2>1
  <2>3. noted \notin DOMAIN rows
    BY <1>4, <1>5, <2>1, <2>2 DEF writeFile
  <2>4. noted \in Known /\ pc' = pc /\ (watchFile(noted, filesById) \/ UNCHANGED filesById)
    BY <2>1, <2>3
  <2>5. DOMAIN filesById' = DOMAIN filesById
    BY <2>4 DEF watchFile
  <2> QED
    BY <1>7, <1>9, <2>3, <2>4, <2>5 DEF noteInsert, Noted
<1> QED
  BY <1>6, <1>8, <1>9

LEMMA CrashEnds ==
  ASSUME [Next]_vars, alive', pc # "crashed" PROVE pc' # "crashed"
<1>1. CASE UNCHANGED pc
  BY <1>1
<1>2. CASE Startup \/ R \/ Inotify
  BY <1>1, <1>2 DEF Startup, connect, setupInotify, listen, R, StartScript, EndScript, RWrite,
    RRemove, findOrAddFile, Inotify, handleInotifyEvent, CutName, CutLongName, CreateSkipped, CreateFailed, CreateInserted,
    NoEntry, CloseWrite, DeleteSelf, EndBatch, Event, session
<1>3. CASE Others \/ handleIgnoreFSNotesOff
  BY <1>1, <1>3 DEF Others, ForeignInsert, ForeignUpdate, ForeignDelete, Foreign, session,
    handleIgnoreFSNotesOff
<1>4. CASE Notifications
  <2>1. CASE handleDBNotifications \/ noteUnknown \/ noteDelete \/ noteUpdate \/ EndNotes
    BY <1>1, <2>1 DEF handleDBNotifications, noteUnknown, noteDelete, noteUpdate, EndNotes, session
  <2>2. CASE noteInsert
    BY <1>1, <2>2 DEF noteInsert
  <2> QED
    BY <1>4, <2>1, <2>2 DEF Notifications
<1>5. CASE UNCHANGED vars
  BY <1>1, <1>5 DEF vars, session
<1> QED
  BY <1>2, <1>3, <1>4, <1>5 DEF Next

LEMMA HeardKept ==
  ASSUME Typed, Typed', QueueInv, [Next]_vars, pc = "notes", NEW n, Heard(n), n \notin excused'
  PROVE  Heard(n)'
<1>1. PICK u \in Happened : u.name = n /\ u.by = "R"
  BY DEF Heard
<1>2. u \in Happened'
  BY <1>1, RKept
<1> QED
  BY <1>1, <1>2 DEF Heard

\* While notifications are processed, those that are not taken stay.
LEMMA NotesKept ==
  ASSUME Typed, [Next]_vars, pc = "notes", NEW m \in Range(notes)
  PROVE  \/ m \in Range(notes') /\ pc' \in {"notes", "crashed"}
         \/ Handled /\ notes # <<>> /\ m = Head(notes)
<1>0. notes \in Seq(Note) /\ wire \in Seq(Note) /\ m \in Note
  BY DEF Typed, QueuesTyped, Range
<1>1. CASE UNCHANGED <<notes, pc>>
  BY <1>1
<1>2. CASE Startup \/ R \/ Inotify \/ handleIgnoreFSNotesOff
  BY <1>2 DEF Startup, connect, setupInotify, listen, R, StartScript, EndScript, RWrite, RRemove,
    findOrAddFile, Inotify, handleInotifyEvent, CutName, CutLongName, CreateSkipped, CreateFailed, CreateInserted, NoEntry,
    CloseWrite, DeleteSelf, EndBatch, Event, handleIgnoreFSNotesOff
<1>3. CASE Others
  BY <1>1, <1>3 DEF Others, ForeignInsert, ForeignUpdate, ForeignDelete, Foreign, session
<1>4. CASE handleDBNotifications
  BY <1>4 DEF handleDBNotifications
<1>5. CASE EndNotes
  BY <1>5 DEF EndNotes, Range
<1>6. CASE Handled
  <2>1. /\ notes # <<>> /\ (Reload \/ notes' = Tail(notes)) /\ pc' \in {"notes", "crashed"}
    BY <1>6 DEF Handled, noteUnknown, noteDelete, noteInsert, noteUpdate, Noted, session
  <2>2. Range(notes) = {Head(notes)} \cup Range(Tail(notes)) /\ Tail(notes) \in Seq(Note)
    BY <1>0, <2>1, RangeFacts, HeadTailProperties
  <2>3. Range(Tail(notes)) \subseteq Range(notes')
    <3>1. CASE Reload
      <4>1. notes' = Tail(notes) \o wire
        BY <3>1 DEF Reload
      <4>2. \A t \in Seq(Note) : Range(t \o wire) = Range(t) \cup Range(wire)
        BY <1>0, RangeFacts
      <4> QED
        BY <2>2, <4>1, <4>2
    <3> QED
      BY <2>1, <3>1
  <2> QED
    BY <1>6, <2>1, <2>2, <2>3
<1>7. CASE UNCHANGED vars
  BY <1>1, <1>7 DEF vars, dbQueues, session
<1> QED
  BY <1>2, <1>3, <1>4, <1>5, <1>6, <1>7 DEF Next, Notifications, Handled

\* While notifications are processed, only a deletion takes a file from the table.
LEMMA TableKept ==
  ASSUME Typed, CacheInv, [Next]_vars, pc = "notes", NEW id \in Known
  PROVE  id \in Known' \/ (noteDelete /\ id = noted)
<1>0. Known = DOMAIN filesById /\ Known' = DOMAIN filesById'
  BY DEF Known
<1>1. CASE UNCHANGED filesById
  BY <1>0, <1>1
<1>2. CASE Startup \/ R \/ Inotify \/ handleIgnoreFSNotesOff
  BY <1>2 DEF Startup, connect, setupInotify, listen, R, StartScript, EndScript, RWrite, RRemove,
    findOrAddFile, Inotify, handleInotifyEvent, CutName, CutLongName, CreateSkipped, CreateFailed, CreateInserted, NoEntry,
    CloseWrite, DeleteSelf, EndBatch, Event, handleIgnoreFSNotesOff
<1>3. CASE Others
  BY <1>1, <1>3 DEF Others, ForeignInsert, ForeignUpdate, ForeignDelete, Foreign, indexes
<1>4. CASE handleDBNotifications \/ noteUnknown \/ EndNotes
  BY <1>1, <1>4 DEF handleDBNotifications, noteUnknown, EndNotes, indexes
<1>5. CASE noteDelete
  BY <1>0, <1>5 DEF noteDelete, Without, Restrict
<1>6. CASE noteUpdate
  <2>1. filesById' = filesById \/ (noted \in DOMAIN rows /\ filesById' = fileFromRow(noted))
    BY <1>6 DEF noteUpdate
  <2> QED
    BY <1>0, <1>1, <2>1, FromRow
<1>7. CASE noteInsert
  <2>1. \/ UNCHANGED filesById
        \/ noted \in DOMAIN rows /\ watchFile(noted, fileFromRow(noted))
        \/ watchFile(noted, filesById)
    <3>1. CASE noted \in DOMAIN rows
      BY <1>7, <3>1 DEF noteInsert
    <3>2. CASE noted \notin DOMAIN rows
      BY <1>7, <3>2 DEF noteInsert
    <3> QED
      BY <3>1, <3>2
  <2>2. CASE noted \in DOMAIN rows /\ watchFile(noted, fileFromRow(noted))
    <3>1. DOMAIN filesById' = DOMAIN fileFromRow(noted)
      BY <2>2 DEF watchFile
    <3> QED
      BY <1>0, <2>2, <3>1, FromRow
  <2>3. CASE watchFile(noted, filesById)
    BY <1>0, <2>3 DEF watchFile
  <2> QED
    BY <1>1, <2>1, <2>2, <2>3
<1>8. CASE UNCHANGED vars
  BY <1>1, <1>8 DEF vars, indexes
<1> QED
  BY <1>2, <1>3, <1>4, <1>5, <1>6, <1>7, <1>8 DEF Next, Notifications

LEMMA FollowedBefore ==
  ASSUME Base, Typed', CacheInv', [Next]_vars, Serving, Serving', NEW n, Followed(n)'
  PROVE  Followed(n)
<1>0. /\ Typed /\ CacheInv /\ QueueInv /\ n \in Names /\ n \notin excused' /\ n \notin outrun'
      /\ ~Doomed(n)' /\ alive' /\ pc # "load"
  BY DEF Base, Everything, Followed, Serving
<1>1. n \notin excused /\ n \notin outrun
  BY <1>0, ExcusedGrows, OutrunGrows DEF connect
<1>2. ASSUME Doomed(n) PROVE FALSE
  <2>1. pc = "notes" /\ Heard(n) /\ Heard(n)'
    BY <1>0, <1>2, HeardKept DEF Doomed
  <2>2. PICK m \in Range(notes) : m.op = "d" /\ m.id \in Known /\ m.name = n
    BY <1>2 DEF Doomed
  <2>3. ASSUME noteDelete, m = Head(notes) PROVE FALSE
    BY <1>0, <2>1, <2>2, <2>3, NothingLeft
  <2>4. ~(Handled /\ m = Head(notes))
    BY <2>2, <2>3 DEF Handled, noteUnknown, noteInsert, noteUpdate, Noted, noted
  <2>5. m \in Range(notes') /\ pc' \in {"notes", "crashed"}
    BY <1>0, <2>1, <2>4, NotesKept
  <2>6. pc' = "notes"
    <3>1. ASSUME pc' = "crashed" PROVE FALSE
      BY <1>0, <2>1, <3>1, CrashEnds
    <3> QED
      BY <2>5, <3>1
  <2>7. m.id \notin Known'
    BY <1>0, <2>1, <2>2, <2>5, <2>6 DEF Doomed
  <2>8. noteDelete /\ m.id = noted
    BY <1>0, <2>1, <2>2, <2>7, TableKept
  <2>9. m \in Said /\ Head(notes) \in Said
    <3>1. /\ notes \in Seq(Note) /\ Notified \in Seq(Note) /\ notes # <<>>
          /\ \A i \in DOMAIN notes : i \in DOMAIN Notified /\ Notified[i] = notes[i]
          /\ 1 \in DOMAIN notes /\ Head(notes) = notes[1]
      BY <1>0, <2>8 DEF Typed, QueuesTyped, Notified, noteDelete, Noted
    <3> QED
      BY <2>2, <3>1 DEF Said, Range
  <2>10. Head(notes).name = n
    BY <1>0, <2>2, <2>8, <2>9 DEF CacheInv, SameNames, Known, noted
  <2> QED
    BY <1>0, <2>1, <2>8, <2>10, NothingLeft
<1> QED
  BY <1>0, <1>1, <1>2 DEF Followed

-----------------------------------------------------------------------------
(* What a step does not touch keeps following. *)

\* The file objects named n keep their watches.
FilesHeld(n) ==
  \A id \in Known : filesById[id].name = n =>
    id \in Known' /\ filesById'[id].name = n /\ filesById'[id].wd = filesById[id].wd

LEMMA WatchAside ==
  ASSUME Typed, WatchesApart, DescriptorInv, [Next]_vars, ~setupInotify, NEW n \in Names,
         \A files, id : Watches(files, id) => files[id].name # n
  PROVE  /\ watchOf'[n] \in {0, watchOf[n]}
         /\ \A w \in DOMAIN byWd' : Holds(w, n) => w \in DOMAIN byWd /\ byWd'[w] = byWd[w]
<1>0. /\ watchOf \in [Dirs -> Nat] /\ n \in Dirs /\ nextWd \in Nat
  BY DEF Typed, OutsideTyped, Dirs
<1>1. CASE WatchesLess
  BY <1>0, <1>1 DEF WatchesLess
<1>2. ASSUME NEW files, NEW id, Watches(files, id)
      PROVE  /\ watchOf'[n] \in {0, watchOf[n]}
             /\ \A w \in DOMAIN byWd' : Holds(w, n) => w \in DOMAIN byWd /\ byWd'[w] = byWd[w]
  <2> DEFINE m == files[id].name
  <2>1. PICK wd \in Nat \ {0} : Gives(files, id, m, wd)
    BY <1>2, WatchGiven DEF Watches
  <2>2. m # n /\ m \in Names
    BY <1>2 DEF Watches, FilesTyped, FileInfo
  <2> HIDE DEF m
  <2>3. /\ watchOf' = [watchOf EXCEPT ![m] = wd] /\ byWd' = With(byWd, wd, id)
        /\ wd = watchOf[m] \/ wd = nextWd
    BY <2>1 DEF Gives
  <2>4. watchOf'[n] = watchOf[n]
    BY <1>0, <2>2, <2>3
  <2>5. ~Holds(wd, n)
    <3>1. CASE wd = watchOf[m]
      <4>1. Holds(wd, m)
        BY <3>1 DEF Holds
      <4> QED
        BY <2>2, <4>1 DEF DescriptorInv, OneName
    <3>2. CASE wd = nextWd
      BY <1>0, <3>2 DEF DescriptorInv, OneName
    <3> QED
      BY <2>3, <3>1, <3>2
  <2>6. ASSUME NEW w \in DOMAIN byWd', Holds(w, n)
        PROVE  w \in DOMAIN byWd /\ byWd'[w] = byWd[w]
    <3>1. w # wd
      BY <2>5, <2>6
    <3> QED
      BY <2>3, <3>1 DEF With
  <2> QED
    BY <2>4, <2>6
<1> QED
  BY <1>1, <1>2, WatchSteps

LEMMA LedAside ==
  ASSUME Base, Typed', DescriptorInv', [Next]_vars, ~setupInotify, NEW n \in Names, Led(n),
         ~RWrite(n), ~RRemove(n), FilesHeld(n),
         \A files, id : Watches(files, id) => files[id].name # n,
         n \in Present' => n \in Present,
         n \in manual' => n \in manual /\ (pc' = "script" => pc = "script")
  PROVE  Led(n)'
<1>0. /\ Typed /\ WatchesApart /\ QueueInv /\ DescriptorInv
      /\ watchOf \in [Dirs -> Nat] /\ n \in Dirs
      /\ WatchLeads(n) /\ EventsLead(n) /\ AddedByHand(n) /\ (n \in Present => Again(Stream, n))
  BY DEF Base, Everything, Typed, OutsideTyped, Dirs, Led
<1>1. /\ watchOf'[n] \in {0, watchOf[n]}
      /\ \A w \in DOMAIN byWd' : Holds(w, n) => w \in DOMAIN byWd /\ byWd'[w] = byWd[w]
  BY <1>0, WatchAside
<1>2. \A u \in Happened' : u.name = n /\ u.by = "R" => u \in Happened
  BY <1>0, NewByR
<1>3. ASSUME NEW w \in DOMAIN byWd', NEW e, e = byWd'[w], Holds(w, n), Leads(w, n)
      PROVE  e \in Known' /\ filesById'[e].name = n /\ filesById'[e].wd = w
  <2>1. w \in DOMAIN byWd /\ e = byWd[w]
    BY <1>1, <1>3
  <2>2. e \in Known /\ filesById[e].name = n /\ filesById[e].wd = w
    BY <1>3, <2>1 DEF Leads
  <2> QED
    BY <2>2 DEF FilesHeld
<1>4. WatchLeads(n)'
  <2> SUFFICES ASSUME watchOf'[n] # 0
               PROVE  /\ Leads(watchOf[n], n)'
                      /\ \E id \in Known' : filesById'[id].name = n
                                            /\ filesById'[id].wd = watchOf'[n]
    BY DEF WatchLeads
  <2> DEFINE w == watchOf[n]
  <2>1. watchOf'[n] = w /\ w # 0 /\ Holds(w, n) /\ Leads(w, n)
    BY <1>0, <1>1 DEF Holds, WatchLeads
  <2>2. PICK id \in Known : filesById[id].name = n /\ filesById[id].wd = w
    BY <1>0, <2>1 DEF WatchLeads
  <2> HIDE DEF w
  <2>3. id \in Known' /\ filesById'[id].name = n /\ filesById'[id].wd = w
    BY <2>2 DEF FilesHeld
  <2>4. w \in DOMAIN byWd' => /\ byWd'[w] \in Known' /\ filesById'[byWd'[w]].name = n
                              /\ filesById'[byWd'[w]].wd = w
    BY <1>3, <2>1
  <2>5. Leads(watchOf[n], n)'
    BY <2>1, <2>4 DEF Leads
  <2> QED
    BY <2>1, <2>3, <2>5
<1>5. EventsLead(n)'
  <2> SUFFICES ASSUME NEW u \in Happened', u.kind \in FileEvents, u.by = "R", u.name = n,
                      u.wd \in DOMAIN byWd'
               PROVE  /\ byWd'[u.wd] \in Known' /\ filesById'[byWd'[u.wd]].name = n
                      /\ filesById'[byWd'[u.wd]].wd = u.wd
    BY DEF EventsLead, Leads
  <2>1. u \in Happened
    BY <1>2
  <2>2. Holds(u.wd, n) /\ Leads(u.wd, n)
    BY <1>0, <2>1 DEF Holds, EventsLead, DescriptorInv, EventWds
  <2> QED
    BY <1>3, <2>2
<1>6. AddedByHand(n)'
  <2> SUFFICES ASSUME n \in manual'
               PROVE  /\ pc' = "script" => n \in KnownNames' /\ watchOf'[n] = 0
                      /\ n \in KnownNames' \/ ~Ran("create", n)'
                      /\ \A u \in Happened' : u.kind = "deleteSelf" /\ u.name = n =>
                           u.wd \notin DOMAIN byWd'
    BY DEF AddedByHand
  <2>1. /\ n \in manual /\ (pc' = "script" => pc = "script")
        /\ n \in KnownNames => n \in KnownNames'
        /\ Ran("create", n)' => Ran("create", n)
    BY <1>2 DEF KnownNames, FilesHeld, Ran
  <2>2. ASSUME NEW u \in Happened', u.kind = "deleteSelf", u.name = n, u.wd \in DOMAIN byWd'
        PROVE  FALSE
    <3>1. u.by = "R" /\ u \in Happened
      BY <1>2, <2>2 DEF DescriptorInv, RemovedUnwatched
    <3>2. Holds(u.wd, n)
      BY <1>0, <2>2, <3>1 DEF Holds, DescriptorInv, EventWds, FileEvents
    <3> QED
      BY <1>0, <1>1, <2>1, <2>2, <3>1, <3>2 DEF AddedByHand
  <2> QED
    BY <1>0, <1>1, <2>1, <2>2 DEF AddedByHand
<1>7. n \in Present' => Again(Stream, n)'
  <2>1. ASSUME Again(Stream, n) PROVE Again(Stream', n)
    BY <1>0, <2>1, AgainKept
  <2>2. Again(Stream', n) => Again(Stream, n)'
    OBVIOUS
  <2> QED
    BY <1>0, <2>1, <2>2
<1> QED
  BY <1>4, <1>5, <1>6, <1>7 DEF Led

\* The directory, the rows and the table say of n what they said.
SameFile(n) ==
  /\ n \in Present <=> n \in Present'
  /\ n \in Present => disk'[n] = disk[n]
  /\ \A id \in DOMAIN rows : rows[id].name = n => id \in DOMAIN rows' /\ rows'[id] = rows[id]
  /\ n \in RowNames' => n \in RowNames
  /\ n \in KnownNames' => n \in KnownNames

LEMMA EffectiveKept ==
  ASSUME Typed, CacheInv, [Next]_vars, NEW n, FilesHeld(n), Effective(n),
         notes # <<>> /\ Handled => noteUnknown \/ Head(notes).name # n
  PROVE  Effective(n)'
<1>1. PICK m \in Said : m.name = n /\ (m.op = "i" \/ m.id \in Known)
  BY DEF Effective
<1>2. m \in Said'
  <2>1. ASSUME Handled, notes # <<>>, m = Head(notes) PROVE FALSE
    BY <1>1, <2>1 DEF noteUnknown, Noted, noted
  <2> QED
    BY <2>1, SaidKept
<1>3. m.id \in Known => m.id \in Known'
  BY <1>1 DEF CacheInv, SameNames, Known, FilesHeld
<1> QED
  BY <1>1, <1>2, <1>3 DEF Effective

LEMMA AgreedAside ==
  ASSUME Base, Typed', [Next]_vars, NEW n \in Names, Agreed(n), Followed(n)', SameFile(n),
         FilesHeld(n), notes # <<>> /\ Handled => noteUnknown \/ Head(notes).name # n,
         \/ UNCHANGED fsQueues
         \/ pc = "inotify" /\ batch # <<>> /\ Head(batch).name = n /\ Head(batch).by = "R" =>
              Head(batch).kind = "name"
  PROVE  Agreed(n)'
<1>0. Typed /\ CacheInv /\ QueueInv /\ n \notin excused'
  BY DEF Base, Everything, Followed
<1>1. Effective(n) => Effective(n)'
  BY <1>0, EffectiveKept
<1>2. ASSUME NEW kind \in {"create", "closeWrite", "deleteSelf"}, Ran(kind, n)
      PROVE  Ran(kind, n)'
  <2>1. PICK u \in Happened : u.kind = kind /\ u.name = n /\ u.by = "R"
    BY <1>2 DEF Ran
  <2>2. u \in Happened'
    <3>1. CASE UNCHANGED fsQueues
      BY <2>1, <3>1 DEF fsQueues, Happened
    <3> QED
      BY <1>0, <2>1, <3>1, RKept
  <2> QED
    BY <2>1, <2>2 DEF Ran
<1>3. n \in KnownNames <=> n \in KnownNames'
  BY DEF SameFile, FilesHeld, KnownNames
<1>4. Matches(n) /\ n \in Present => Matches(n)'
  BY DEF SameFile, Matches
<1> QED
  BY <1>1, <1>2, <1>3, <1>4 DEF Agreed, SameFile

\* The step is not about the file n: neither R nor a handler touches it.
Aside(n) ==
  /\ ~RWrite(n) /\ ~RRemove(n) /\ FilesHeld(n) /\ SameFile(n)
  /\ \A files, id : Watches(files, id) => files[id].name # n
  /\ n \in manual' => n \in manual /\ (pc' = "script" => pc = "script")
  /\ notes # <<>> /\ Handled => noteUnknown \/ Head(notes).name # n
  /\ pc = "inotify" /\ batch # <<>> /\ Head(batch).name = n /\ Head(batch).by = "R" =>
       Head(batch).kind = "name"

LEMMA FollowsAside ==
  ASSUME Base, Typed', CacheInv', DescriptorInv', [Next]_vars, ~setupInotify,
         Serving, Serving', DiskInv, NEW n, Followed(n)', Aside(n)
  PROVE  Led(n)' /\ Agreed(n)'
<1>1. Followed(n) /\ n \in Names
  BY FollowedBefore DEF Followed
<1>2. Led(n) /\ Agreed(n)
  BY <1>1 DEF DiskInv
<1>3. Led(n)'
  <2>1. n \in Present' => n \in Present
    BY DEF Aside, SameFile
  <2> QED
    BY <1>1, <1>2, <2>1, LedAside DEF Aside
<1>4. Agreed(n)'
  BY <1>1, <1>2, AgreedAside DEF Aside
<1> QED
  BY <1>3, <1>4

\* Steps that touch no file at all.
Idle == \/ listen \/ StartScript \/ EndScript \/ handleInotifyEvent \/ CutName \/ CutLongName
        \/ EndBatch \/ handleDBNotifications \/ noteUnknown \/ EndNotes \/ handleIgnoreFSNotesOff

LEMMA IdleAside ==
  ASSUME Typed, Idle, Serving', NEW n PROVE Aside(n) /\ ~setupInotify
<1>1. /\ UNCHANGED <<disk, rows, filesById>> /\ (manual' = manual \/ manual' = {})
      /\ manual' # {} /\ pc' = "script" => pc = "script"
  <2>1. CASE CutLongName
    BY <2>1 DEF CutLongName, Event, insertFails, database, dirState, indexes
  <2>2. CASE Idle /\ ~CutLongName
    BY <2>2 DEF Idle, listen, StartScript, EndScript, handleInotifyEvent, CutName, EndBatch,
      handleDBNotifications, noteUnknown, EndNotes, handleIgnoreFSNotesOff, vars, dirState,
      database, indexes, session
  <2> QED
    BY <2>1, <2>2
<1>2. FilesHeld(n) /\ SameFile(n)
  BY <1>1 DEF FilesHeld, SameFile, Known, KnownNames, Present, RowNames
<1>3. ~setupInotify /\ ~RWrite(n) /\ ~RRemove(n) /\ ~CreateInserted /\ ~noteInsert
  <2>1. pc # "setup" /\ (pc # "script" \/ pc' # "script")
    BY DEF Idle, listen, StartScript, EndScript, handleInotifyEvent, CutName, CutLongName, EndBatch,
      handleDBNotifications, noteUnknown, EndNotes, handleIgnoreFSNotesOff, Event, Noted
  <2>2. /\ pc = "inotify" /\ batch # <<>> => Head(batch).kind # "create"
        /\ pc = "notes" /\ notes # <<>> => Head(notes).op # "i"
    BY DEF Idle, listen, StartScript, EndScript, handleInotifyEvent, CutName, CutLongName, EndBatch,
      handleDBNotifications, noteUnknown, EndNotes, handleIgnoreFSNotesOff, Event, Noted
  <2>3. /\ RWrite(n) \/ RRemove(n) => pc = "script" /\ pc' = pc
        /\ setupInotify => pc = "setup"
        /\ CreateInserted => Event("create")
        /\ noteInsert => Noted("i")
    BY DEF RWrite, RRemove, setupInotify, CreateInserted, noteInsert, session
  <2> QED
    BY <2>1, <2>2, <2>3 DEF Event, Noted
<1>4. notes # <<>> /\ Handled => noteUnknown
  BY DEF Idle, listen, StartScript, EndScript, handleInotifyEvent, CutName, CutLongName, EndBatch,
    handleDBNotifications, EndNotes, handleIgnoreFSNotesOff, Event,
    Handled, noteDelete, noteInsert, noteUpdate, Noted
<1>5. pc = "inotify" /\ batch # <<>> => Head(batch).kind = "name"
  BY DEF Idle, listen, StartScript, EndScript, handleInotifyEvent, CutName, CutLongName, EndBatch,
    handleDBNotifications, noteUnknown, EndNotes, handleIgnoreFSNotesOff, Event, Noted
<1> QED
  BY <1>1, <1>2, <1>3, <1>4, <1>5 DEF Aside, Watches

-----------------------------------------------------------------------------
(* What connect, the watches and other clients do. *)

\* What a step is given, and what it has to keep.
Stepping == Base /\ Base' /\ [Next]_vars /\ Serving /\ Serving' /\ DiskInv

LEMMA SteppingGives ==
  ASSUME Stepping
  PROVE  /\ Typed /\ CacheInv /\ NotesInv /\ FilesUnique /\ WatchesApart /\ QueueInv
         /\ Typed' /\ CacheInv' /\ FilesUnique' /\ WatchesApart' /\ QueueInv'
         /\ DescriptorInv /\ DescriptorInv' /\ Base /\ [Next]_vars /\ Serving /\ Serving'
         /\ DiskInv /\ pc # "load" /\ alive /\ alive'
  BY DEF Stepping, Base, Everything, Serving

LEMMA AsideFollows ==
  ASSUME Stepping, NEW n, Followed(n)'
  PROVE  /\ Followed(n) /\ n \in Names /\ Led(n) /\ Agreed(n)
         /\ n \notin excused /\ n \notin excused' /\ n \notin outrun'
         /\ Aside(n) /\ ~setupInotify => Led(n)' /\ Agreed(n)'
<1>0. /\ Typed' /\ CacheInv' /\ DescriptorInv' /\ Base /\ [Next]_vars /\ Serving /\ Serving'
      /\ DiskInv
  BY SteppingGives
<1>1. Followed(n)
  BY <1>0, FollowedBefore
<1> QED
  BY <1>0, <1>1, FollowsAside DEF Followed, DiskInv

\* A row that has no file object was announced, or its announcement was lost.
LEMMA RowAnnounced ==
  ASSUME CacheInv, pc # "load", NEW id \in DOMAIN rows, id \notin Known,
         rows[id].name \notin excused
  PROVE  /\ Effective(rows[id].name)
         /\ \E m \in Said : m.op = "i" /\ m.name = rows[id].name
<1>1. PICK m \in Said : m.id = id /\ m.op = "i"
  BY DEF CacheInv, Mended, SaidOf, Known
<1>2. m.name = rows[id].name
  BY <1>1 DEF CacheInv, SameNames
<1> QED
  BY <1>1, <1>2 DEF Effective

\* A row that was deleted under a file object was announced too.
LEMMA DeletionAnnounced ==
  ASSUME CacheInv, pc # "load", NEW id \in Known, id \notin DOMAIN rows,
         filesById[id].name \notin excused
  PROVE  /\ Effective(filesById[id].name)
         /\ \E m \in Said : m.op = "d" /\ m.id = id /\ m.name = filesById[id].name
<1>1. PICK m \in Said : m.id = id /\ m.op = "d"
  BY DEF CacheInv, Mended, SaidOf, Known
<1>2. m.name = filesById[id].name
  BY <1>1 DEF CacheInv, SameNames, Known
<1> QED
  BY <1>1, <1>2 DEF Effective

LEMMA OthersFollow ==
  ASSUME Stepping, Others, NEW n, Followed(n)'
  PROVE  Led(n)' /\ Agreed(n)'
<1>0. /\ Typed /\ CacheInv /\ NotesInv /\ pc # "load" /\ [Next]_vars /\ n \in Names
      /\ n \notin excused /\ n \notin excused' /\ Led(n) /\ Agreed(n)
      /\ Aside(n) /\ ~setupInotify => Led(n)' /\ Agreed(n)'
      /\ Base /\ Typed' /\ DescriptorInv'
  BY SteppingGives, AsideFollows
<1>1. PICK op \in {"i", "u", "d"}, id \in Nat, a \in Names :
        /\ Foreign(op, id, a)
        /\ \A jd \in DOMAIN rows \cup DOMAIN rows' : jd # id =>
             jd \in DOMAIN rows /\ jd \in DOMAIN rows' /\ rows'[jd] = rows[jd]
        /\ op = "i" => id \notin DOMAIN rows /\ rows'[id].name = a
        /\ op # "i" => id \in DOMAIN rows /\ rows[id].name = a
                       /\ (id \in DOMAIN rows' => rows'[id].name = a)
        /\ RowsTyped(rows) /\ nextId \in Nat
  <2>0. RowsTyped(rows) /\ nextId \in Nat /\ nextId \notin DOMAIN rows
    BY <1>0 DEF Typed, OutsideTyped, CacheInv, SameNames
  <2>1. ASSUME NEW a \in Names, ForeignInsert(a)
        PROVE  /\ Foreign("i", nextId, a) /\ rows'[nextId].name = a
               /\ \A jd \in DOMAIN rows \cup DOMAIN rows' : jd # nextId =>
                    jd \in DOMAIN rows /\ jd \in DOMAIN rows' /\ rows'[jd] = rows[jd]
    BY <2>1 DEF ForeignInsert, With
  <2>2. ASSUME NEW id \in DOMAIN rows, ForeignUpdate(id)
        PROVE  /\ Foreign("u", id, rows[id].name) /\ rows'[id].name = rows[id].name
               /\ \A jd \in DOMAIN rows \cup DOMAIN rows' : jd # id =>
                    jd \in DOMAIN rows /\ jd \in DOMAIN rows' /\ rows'[jd] = rows[jd]
               /\ id \in Nat /\ rows[id].name \in Names
    <3>1. id \in Nat /\ rows[id] \in RowType
      BY <2>0 DEF RowsTyped
    <3>2. rows' = [rows EXCEPT ![id].version = @ + 1, ![id].data = Stamp]
      BY <2>2 DEF ForeignUpdate
    <3> QED
      BY <2>2, <3>1, <3>2 DEF ForeignUpdate, RowType
  <2>3. ASSUME NEW id \in DOMAIN rows, ForeignDelete(id)
        PROVE  /\ Foreign("d", id, rows[id].name) /\ id \notin DOMAIN rows'
               /\ \A jd \in DOMAIN rows \cup DOMAIN rows' : jd # id =>
                    jd \in DOMAIN rows /\ jd \in DOMAIN rows' /\ rows'[jd] = rows[jd]
               /\ id \in Nat /\ rows[id].name \in Names
    <3>1. id \in Nat /\ rows[id] \in RowType
      BY <2>0 DEF RowsTyped
    <3> QED
      BY <2>3, <3>1 DEF ForeignDelete, RowType, Without, Restrict
  <2> QED
    BY <2>0, <2>1, <2>2, <2>3 DEF Others
<1>2. /\ UNCHANGED <<disk, filesById, manual, pc>>
      /\ Said' = Said \cup (IF listening THEN {[op |-> op, id |-> id, name |-> a]} ELSE {})
      /\ ~listening => a \in excused'
  BY <1>0, <1>1, ForeignSays DEF Foreign, dirState, indexes, session
<1>3. /\ ~setupInotify /\ ~RWrite(n) /\ ~RRemove(n) /\ ~CreateInserted /\ ~noteInsert
      /\ ~Handled
  <2>0. count \in CountType /\ count.foreign \in Nat
    BY <1>0 DEF Typed, FlagsTyped, CountType
  <2>1. count'.foreign = count.foreign + 1
    BY <1>1, <2>0 DEF Foreign, Bump, CountType
  <2>2. \A ok \in BOOLEAN : Answered(ok) => count'.foreign = count.foreign
    BY <2>0 DEF Answered, Bump, CountType
  <2>3. setupInotify \/ noteUnknown \/ noteDelete => count' = count
    BY DEF setupInotify, noteUnknown, noteDelete
  <2>4. RWrite(n) \/ RRemove(n) => count'.foreign = count.foreign
    BY <2>0 DEF RWrite, RRemove, Bump, CountType
  <2>5. CreateInserted \/ noteInsert \/ noteUpdate => \E ok \in BOOLEAN : Answered(ok)
    BY DEF CreateInserted, noteInsert, noteUpdate
  <2> QED
    BY <2>0, <2>1, <2>2, <2>3, <2>4, <2>5 DEF Handled
<1>4. Led(n)'
  <2>1. /\ FilesHeld(n) /\ \A files, jd : ~Watches(files, jd)
        /\ n \in Present' => n \in Present
        /\ n \in manual' => n \in manual /\ (pc' = "script" => pc = "script")
    BY <1>2, <1>3 DEF FilesHeld, Known, Present, Watches
  <2> QED
    BY <1>0, <1>3, <2>1, LedAside
<1>5. Agreed(n)'
  <2>1. CASE a # n
    <3>1. SameFile(n) /\ FilesHeld(n)
      <4>1. \A jd \in DOMAIN rows \cup DOMAIN rows' :
              \/ rows'[jd] = rows[jd] /\ jd \in DOMAIN rows /\ jd \in DOMAIN rows'
              \/ jd = id
        BY <1>1
      <4>2. /\ id \in DOMAIN rows => rows[id].name # n
            /\ id \in DOMAIN rows' => rows'[id].name # n
        BY <1>1, <2>1
      <4> QED
        BY <1>2, <4>1, <4>2 DEF SameFile, FilesHeld, Present, RowNames, Known, KnownNames
    <3>2. UNCHANGED fsQueues
      BY <1>1 DEF Foreign
    <3> QED
      BY <1>0, <1>3, <3>1, <3>2, AgreedAside
  <2>2. CASE a = n
    <3> DEFINE told == [op |-> op, id |-> id, name |-> a]
    <3>0. told.op = op /\ told.id = id /\ told.name = n
      BY <2>2
    <3>1. told \in Said' /\ Said \subseteq Said' /\ Known' = Known
      <4>1. listening
        BY <1>0, <1>2, <2>2
      <4>2. Said' = Said \cup {told}
        BY <1>2, <4>1
      <4>3. Known' = Known
        BY <1>2 DEF Known
      <4> QED
        BY <4>2, <4>3
    <3> HIDE DEF told
    <3>2. CASE op = "i" \/ id \in Known
      <4>1. told.id \in Known => told.id \in Known'
        BY <3>1
      <4> QED
        BY <3>0, <3>1, <3>2, <4>1 DEF Effective, Agreed
    <3>3. CASE op # "i" /\ id \notin Known
      <4>1. Effective(n)
        BY <1>0, <1>1, <2>2, <3>3, RowAnnounced
      <4> QED
        BY <3>1, <4>1 DEF Effective, Agreed
    <3> QED
      BY <3>2, <3>3
  <2> QED
    BY <2>1, <2>2
<1> QED
  BY <1>4, <1>5

\* Nothing has happened in the directory before the watches are set up.
LEMMA NothingHappened ==
  ASSUME Typed', Happened' = {}, NEW n
  PROVE  /\ EventsLead(n)' /\ Again(Stream, n)' /\ \A kind : ~Ran(kind, n)'
         /\ pc' # "script" => AddedByHand(n)'
<1>1. EventsLead(n)' /\ \A kind : ~Ran(kind, n)'
  BY DEF EventsLead, Ran
<1>2. Again(Stream, n)'
  <2>1. Stream' \in Seq(EventType) /\ Range(Stream') = {}
    BY StreamRange
  <2>2. \A i \in DOMAIN Stream' : FALSE
    BY <2>1 DEF Range
  <2>3. Again(Stream', n)
    BY <2>2 DEF Again
  <2>4. Again(Stream', n) => Again(Stream, n)'
    OBVIOUS
  <2> QED
    BY <2>3, <2>4
<1>3. pc' # "script" => AddedByHand(n)'
  BY <1>1 DEF AddedByHand
<1> QED
  BY <1>1, <1>2, <1>3

LEMMA ConnectFollows ==
  ASSUME Base, Base', connect, NEW n, Followed(n)'
  PROVE  Led(n)' /\ Agreed(n)'
<1>0. Typed' /\ n \in Names /\ n \notin excused' /\ pc' = "setup" /\ DescriptorInv' /\ rows' = rows
  BY DEF Base, Everything, Followed, connect, database
<1>1. Happened' = {} /\ watchOf'[n] = 0
  BY <1>0 DEF DescriptorInv, NothingYet, NotWatchedYet
<1>2. Led(n)'
  BY <1>0, <1>1, NothingHappened DEF Led, WatchLeads
<1>3. Agreed(n)'
  <2>1. PICK ok \in BOOLEAN :
          /\ filesById' = IF ~ok THEN <<>> ELSE
               [id \in DOMAIN rows |-> [name |-> rows[id].name,
                                        version |-> rows[id].version, wd |-> 0]]
          /\ disk' = IF ~ok THEN <<>> ELSE
               [m \in RowNames |-> rows[CHOOSE id \in DOMAIN rows : rows[id].name = m].data]
          /\ excused' = IF ok THEN excused ELSE RowNames
    BY DEF connect
  <2>2. RowNames' = RowNames
    BY <1>0 DEF RowNames
  <2>3. CASE ~ok
    BY <1>0, <2>1, <2>2, <2>3 DEF Agreed, Present
  <2>4. CASE ok /\ n \notin RowNames
    BY <2>1, <2>2, <2>4 DEF Agreed, Present
  <2>5. CASE ok /\ n \in RowNames
    <3> DEFINE id == CHOOSE jd \in DOMAIN rows : rows[jd].name = n
    <3>1. id \in DOMAIN rows /\ rows[id].name = n
      BY <2>5 DEF RowNames
    <3>2. n \in Present' /\ disk'[n] = rows[id].data
      BY <2>1, <2>5 DEF Present
    <3> HIDE DEF id
    <3>3. id \in Known' /\ filesById'[id].name = n
      BY <2>1, <2>5, <3>1 DEF Known
    <3>4. Matches(n)'
      BY <1>0, <3>1, <3>2 DEF Matches
    <3>5. n \in KnownNames'
      BY <3>3 DEF KnownNames
    <3> QED
      BY <3>2, <3>4, <3>5 DEF Agreed
  <2> QED
    BY <2>3, <2>4, <2>5
<1> QED
  BY <1>2, <1>3

LEMMA SetupFollows ==
  ASSUME Stepping, setupInotify, NEW n, Followed(n)'
  PROVE  Led(n)' /\ Agreed(n)'
<1>0. Typed /\ Typed' /\ DescriptorInv /\ n \in Names /\ Agreed(n) /\ pc = "setup"
  BY SteppingGives, AsideFollows DEF setupInotify
<1>1. PICK rank : SetUp(rank)
  BY <1>0, SetUpGives
<1>2. /\ UNCHANGED <<disk, rows, notes, wire, kernelQ, input, batch>> /\ pc' = "listen"
  BY DEF setupInotify, database, dbQueues, fsQueues
<1>3. Happened = {} /\ Happened' = {}
  BY <1>0, <1>2 DEF DescriptorInv, NothingYet, Happened
<1>4. WatchLeads(n)'
  <2> SUFFICES ASSUME watchOf'[n] # 0
               PROVE  /\ Leads(watchOf[n], n)'
                      /\ \E id \in Known' : filesById'[id].name = n
                                            /\ filesById'[id].wd = watchOf'[n]
    BY DEF WatchLeads
  <2>1. PICK id \in Known : filesById[id].name = n /\ watchOf'[n] = rank[id]
    BY <1>0, <1>1 DEF SetUp
  <2>2. /\ id \in Known' /\ filesById'[id].name = n /\ filesById'[id].wd = watchOf'[n]
        /\ byWd'[watchOf'[n]] = id
    BY <1>1, <2>1 DEF SetUp
  <2> QED
    BY <2>2 DEF Leads
<1>5. Led(n)'
  BY <1>0, <1>2, <1>3, <1>4, NothingHappened DEF Led
<1>6. Agreed(n)'
  <2>1. /\ Present' = Present /\ RowNames' = RowNames /\ Known' = Known /\ Said' = Said
        /\ KnownNames' = KnownNames /\ (Matches(n)' <=> Matches(n))
    BY <1>1, <1>2 DEF Present, RowNames, SetUp, KnownNames, Said, Notified, Matches
  <2>2. \A kind : ~Ran(kind, n)
    BY <1>3 DEF Ran
  <2>3. Effective(n)' <=> Effective(n)
    BY <2>1 DEF Effective
  <2> QED
    BY <1>0, <2>1, <2>2, <2>3 DEF Agreed
<1> QED
  BY <1>5, <1>6

-----------------------------------------------------------------------------
(* What R does. *)

\* What a queued event adds to what has happened.
LEMMA QueuedFacts ==
  ASSUME Typed, Typed', NEW q \in Seq(EventType), Stream' = Stream \o q
  PROVE  Happened' = Happened \cup Range(q)
<1>1. Stream \in Seq(EventType) /\ Range(Stream) = Happened /\ Range(Stream') = Happened'
  BY StreamRange
<1> QED
  BY <1>1, RangeFacts

\* A file that is watched is known.
LEMMA WatchedKnown ==
  ASSUME NEW n, WatchLeads(n), n \notin KnownNames PROVE watchOf[n] = 0
  BY DEF WatchLeads, KnownNames

\* An event of a file that has no file object has no entry.
LEMMA StrangersEvent ==
  ASSUME NEW n, EventsLead(n), n \notin KnownNames, NEW u \in Happened, u.kind \in FileEvents,
         u.by = "R", u.name = n
  PROVE  u.wd \notin DOMAIN byWd
  BY DEF EventsLead, Leads, KnownNames

LEMMA WriteFollows ==
  ASSUME Stepping, NEW n, Followed(n)', RWrite(n)
  PROVE  Led(n)' /\ Agreed(n)'
<1>0. /\ Typed /\ Typed' /\ CacheInv /\ n \in Names /\ n \notin excused /\ n \notin excused'
      /\ Led(n) /\ Agreed(n) /\ pc # "load"
  BY SteppingGives, AsideFollows
<1> DEFINE q == WriteUnits(n, "R")
<1>1. Writes(q, n, "R")
  <2>1. UNCHANGED <<input, batch>> /\ kernelQ' = kernelQ \o q
    BY DEF RWrite, WriteUnits
  <2> QED
    BY <1>0, <2>1, WritesQueue
<1> HIDE DEF q
<1>2. /\ q \in Seq(EventType) /\ Stream' = Stream \o q
      /\ \A u \in Range(q) : /\ u.name = n /\ u.by = "R" /\ u.kind # "deleteSelf"
                             /\ u.kind \in FileEvents => u.wd # 0 /\ u.wd = watchOf[n]
      /\ n \notin Present /\ watchOf[Dir] # 0 => \E u \in Range(q) : u.kind = "create"
      /\ n \in Present /\ watchOf[n] # 0 => \E u \in Range(q) : u.kind = "closeWrite"
  BY <1>1 DEF Writes, About
<1>3. Happened' = Happened \cup Range(q)
  BY <1>0, <1>2, QueuedFacts
<1>4. /\ UNCHANGED <<watchOf, rows, notes, wire, filesById, byWd, manual, pc>> /\ pc = "script"
      /\ n \in Present'
      /\ n \in Present /\ n \in KnownNames => watchOf[n] # 0
      /\ n \notin Present => watchOf[Dir] # 0
  BY <1>0 DEF RWrite, database, dbQueues, indexes, session, Present, With
<1>5. WatchLeads(n) /\ EventsLead(n) /\ AddedByHand(n) /\ (n \in Present => Again(Stream, n))
  BY <1>0 DEF Led
<1>6. Known' = Known /\ KnownNames' = KnownNames
  BY <1>4 DEF Known, KnownNames
<1>7. WatchLeads(n)'
  BY <1>4, <1>5, <1>6 DEF WatchLeads, Leads
<1>8. EventsLead(n)'
  <2> SUFFICES ASSUME NEW u \in Happened', u.kind \in FileEvents, u.by = "R", u.name = n
               PROVE  Leads(u.wd, n)
    BY <1>4, <1>6 DEF EventsLead, Leads
  <2>1. CASE u \in Happened
    BY <1>5, <2>1 DEF EventsLead
  <2>2. CASE u \in Range(q)
    BY <1>2, <1>5, <2>2 DEF WatchLeads
  <2> QED
    BY <1>3, <2>1, <2>2
<1>9. AddedByHand(n)'
  BY <1>2, <1>3, <1>4, <1>5, <1>6 DEF AddedByHand
<1>10. Again(Stream, n)'
  <2>1. Again(Stream \o q, n)
    <3>1. Stream \in Seq(EventType)
      BY <1>0, StreamRange
    <3>2. CASE n \in Present
      BY <1>2, <1>5, <3>1, <3>2, RemovalsQueued
    <3>3. CASE n \notin Present
      <4>1. PICK u \in Range(q) : u.kind = "create"
        BY <1>2, <1>4, <3>3
      <4> QED
        BY <1>2, <3>1, <4>1, RemovalsQueued
    <3> QED
      BY <3>2, <3>3
  <2>2. Again(Stream', n)
    BY <1>2, <2>1
  <2>3. Again(Stream', n) => Again(Stream, n)'
    OBVIOUS
  <2> QED
    BY <2>2, <2>3
<1>11. Agreed(n)'
  <2>1. Said' = Said /\ (Effective(n) => Effective(n)')
    BY <1>4, <1>6 DEF Said, Notified, Effective
  <2>2. \A kind : Ran(kind, n) => Ran(kind, n)'
    BY <1>3 DEF Ran
  <2>3. CASE n \in Present /\ watchOf[n] # 0
    <3>1. n \in KnownNames
      BY <1>5, <2>3, WatchedKnown
    <3>2. Ran("closeWrite", n)'
      BY <1>2, <1>3, <2>3 DEF Ran
    <3> QED
      BY <1>4, <1>6, <3>1, <3>2 DEF Agreed
  <2>4. CASE n \in Present /\ watchOf[n] = 0
    BY <1>0, <1>4, <1>6, <2>1, <2>2, <2>4 DEF Agreed
  <2>5. CASE n \notin Present
    <3>1. Ran("create", n)'
      BY <1>2, <1>3, <1>4, <2>5 DEF Ran
    <3>2. CASE n \notin KnownNames
      BY <1>4, <1>6, <3>1, <3>2 DEF Agreed
    <3>3. CASE n \in KnownNames /\ n \notin RowNames
      <4>1. PICK id \in Known : filesById[id].name = n
        BY <3>3 DEF KnownNames
      <4>2. id \notin DOMAIN rows
        BY <1>0, <3>3, <4>1 DEF RowNames, CacheInv, SameNames, Known
      <4> QED
        BY <1>0, <2>1, <4>1, <4>2, DeletionAnnounced DEF Agreed
    <3>4. CASE n \in KnownNames /\ n \in RowNames
      BY <1>0, <1>4, <1>6, <2>1, <2>2, <2>5, <3>4 DEF Agreed
    <3> QED
      BY <3>2, <3>3, <3>4
  <2> QED
    BY <2>3, <2>4, <2>5
<1> QED
  BY <1>7, <1>8, <1>9, <1>10, <1>11 DEF Led

LEMMA RemoveFollows ==
  ASSUME Stepping, NEW n, Followed(n)', RRemove(n)
  PROVE  Led(n)' /\ Agreed(n)'
<1>0. /\ Typed /\ Typed' /\ CacheInv /\ n \in Names /\ n \notin excused /\ n \notin excused'
      /\ Led(n) /\ Agreed(n) /\ pc # "load"
  BY SteppingGives, AsideFollows
<1> DEFINE q == RemoveUnits(n)
<1>1. Removes(q, n)
  BY <1>0, RemovesQueue
<1> HIDE DEF q
<1>2. /\ q \in Seq(EventType) /\ Stream' = Stream \o q
      /\ \A u \in Range(q) : /\ u.kind = "deleteSelf" /\ u.name = n /\ u.by = "R"
                             /\ u.wd = watchOf[n] /\ u.wd # 0
      /\ watchOf[n] # 0 => \E u \in Range(q) : u.wd = watchOf[n]
  BY <1>1 DEF Removes
<1>3. Happened' = Happened \cup Range(q)
  BY <1>0, <1>2, QueuedFacts
<1>4. /\ UNCHANGED <<rows, notes, wire, filesById, byWd, manual, pc>> /\ pc = "script"
      /\ n \notin Present' /\ n \in Present
      /\ n \in KnownNames => watchOf[n] # 0
  BY <1>0 DEF RRemove, database, dbQueues, indexes, session, Present, Without, Restrict
<1>5. WatchLeads(n) /\ EventsLead(n) /\ AddedByHand(n)
  BY <1>0 DEF Led
<1>6. Known' = Known /\ KnownNames' = KnownNames /\ RowNames' = RowNames
  BY <1>4 DEF Known, KnownNames, RowNames
<1>7. WatchLeads(n)'
  <2>1. watchOf'[n] = 0
    BY <1>0 DEF RRemove, Typed, OutsideTyped
  <2> QED
    BY <2>1 DEF WatchLeads
<1>8. EventsLead(n)'
  <2> SUFFICES ASSUME NEW u \in Happened', u.kind \in FileEvents, u.by = "R", u.name = n
               PROVE  Leads(u.wd, n)
    BY <1>4, <1>6 DEF EventsLead, Leads
  <2>1. CASE u \in Happened
    BY <1>5, <2>1 DEF EventsLead
  <2>2. CASE u \in Range(q)
    BY <1>2, <1>5, <2>2 DEF WatchLeads
  <2> QED
    BY <1>3, <2>1, <2>2
<1>9. AddedByHand(n)'
  BY <1>4, <1>5 DEF AddedByHand
<1>10. Agreed(n)'
  <2>1. CASE watchOf[n] # 0
    <3>1. Ran("deleteSelf", n)'
      BY <1>2, <1>3, <2>1 DEF Ran
    <3> QED
      BY <1>4, <3>1 DEF Agreed
  <2>2. CASE n \notin RowNames
    BY <1>4, <1>6, <2>2 DEF Agreed
  <2>3. CASE watchOf[n] = 0 /\ n \in RowNames
    <3>1. PICK id \in DOMAIN rows : rows[id].name = n
      BY <2>3 DEF RowNames
    <3>2. id \notin Known
      BY <1>0, <1>4, <2>3, <3>1 DEF KnownNames, CacheInv, SameNames, Known
    <3>3. Effective(n)
      BY <1>0, <3>1, <3>2, RowAnnounced
    <3>4. Said' = Said
      BY <1>4 DEF Said, Notified
    <3> QED
      BY <1>6, <3>3, <3>4 DEF Effective, Agreed
  <2> QED
    BY <2>1, <2>2, <2>3
<1> QED
  BY <1>4, <1>7, <1>8, <1>9, <1>10 DEF Led

\* What an insertion by the session says of the name.
LEMMA InsertedMatches ==
  ASSUME Typed, CacheInv, NEW n \in Present, insertDBFile(n), disk' = disk,
         Known' = Known \cup {nextId}, filesById'[nextId].name = n
  PROVE  Agreed(n)' /\ n \in KnownNames'
<1>1. /\ nextId \in DOMAIN rows' /\ rows'[nextId].name = n /\ rows'[nextId].data = disk[n]
      /\ n \in Present'
  BY DEF insertDBFile, With, Present
<1>2. Matches(n)'
  BY <1>1 DEF Matches
<1>3. n \in KnownNames'
  BY DEF KnownNames
<1> QED
  BY <1>1, <1>2, <1>3 DEF Agreed

\* The rows and the table beside an insertion.
LEMMA InsertedBeside ==
  ASSUME Typed, CacheInv, NEW a, insertDBFile(a), disk' = disk,
         Known' = Known \cup {nextId}, filesById'[nextId].name = a,
         \A id \in Known : filesById'[id] = filesById[id], NEW n, n # a
  PROVE  FilesHeld(n) /\ SameFile(n)
<1>1. FilesHeld(n)
  BY DEF FilesHeld
<1>2. nextId \notin DOMAIN rows /\ nextId \notin Known
  BY DEF CacheInv, SameNames, Typed, OutsideTyped, Known
<1>3. /\ DOMAIN rows' = DOMAIN rows \cup {nextId} /\ rows'[nextId].name = a
      /\ \A id \in DOMAIN rows : rows'[id] = rows[id]
  BY <1>2 DEF insertDBFile, With
<1>4. n \in RowNames' => n \in RowNames
  BY <1>3 DEF RowNames
<1>5. n \in KnownNames' => n \in KnownNames
  BY DEF KnownNames
<1> QED
  BY <1>1, <1>3, <1>4, <1>5 DEF SameFile, Present

LEMMA AddFollows ==
  ASSUME Stepping, NEW n, Followed(n)', findOrAddFile(n)
  PROVE  Led(n)' /\ Agreed(n)'
<1>0. /\ Typed /\ Typed' /\ CacheInv /\ n \in Names /\ n \notin excused /\ n \notin excused'
      /\ Led(n) /\ Agreed(n) /\ pc # "load" /\ DescriptorInv
  BY SteppingGives, AsideFollows
<1>1. insertDBFile(n) /\ filesById' = newFile(n)
  BY <1>0 DEF findOrAddFile, insertRefused, insertFails
<1>2. /\ UNCHANGED <<disk, watchOf, byWd, kernelQ, input, batch, pc>> /\ n \in Present
      /\ n \notin KnownNames
  BY DEF findOrAddFile, dirState, fsQueues, session
<1>3. /\ WatchLeads(n) /\ EventsLead(n) /\ AddedByHand(n) /\ Again(Stream, n)
  BY <1>0, <1>2 DEF Led
<1>4. Happened' = Happened /\ Stream' = Stream
  BY <1>2 DEF Happened, Stream
<1>5. Known' = Known \cup {nextId} /\ filesById'[nextId].name = n
  BY <1>0, <1>1, NewTable DEF Known
<1>6. Agreed(n)' /\ n \in KnownNames'
  BY <1>0, <1>1, <1>2, <1>5, InsertedMatches
<1>7. watchOf'[n] = 0
  BY <1>2, <1>3, WatchedKnown
<1>8. \A u \in Happened' : u.kind \in FileEvents /\ u.by = "R" /\ u.name = n =>
        u.wd \notin DOMAIN byWd'
  BY <1>2, <1>3, <1>4, StrangersEvent
<1>9. WatchLeads(n)' /\ EventsLead(n)'
  BY <1>7, <1>8 DEF WatchLeads, EventsLead, Leads
<1>10. AddedByHand(n)'
  <2>1. \A u \in Happened' : u.kind = "deleteSelf" => u.by = "R" /\ u.kind \in FileEvents
    BY <1>0, <1>4 DEF DescriptorInv, RemovedUnwatched, FileEvents
  <2> QED
    BY <1>6, <1>7, <1>8, <2>1 DEF AddedByHand
<1>11. Again(Stream, n)'
  <2>1. Again(Stream', n)
    BY <1>3, <1>4
  <2> QED
    BY <2>1
<1> QED
  BY <1>6, <1>9, <1>10, <1>11 DEF Led

LEMMA RFollows ==
  ASSUME Stepping, R, NEW n, Followed(n)'
  PROVE  Led(n)' /\ Agreed(n)'
<1>0. /\ Typed /\ CacheInv /\ n \in Names /\ Serving'
      /\ Aside(n) /\ ~setupInotify => Led(n)' /\ Agreed(n)'
  BY SteppingGives, AsideFollows
<1>1. CASE StartScript \/ EndScript
  BY <1>0, <1>1, IdleAside DEF Idle
<1>2. CASE RWrite(n) \/ RRemove(n) \/ findOrAddFile(n)
  BY <1>2, WriteFollows, RemoveFollows, AddFollows
<1>3. CASE /\ ~RWrite(n) /\ ~RRemove(n) /\ ~findOrAddFile(n)
           /\ \E a \in Names : RWrite(a) \/ RRemove(a) \/ findOrAddFile(a)
  <2>1. PICK a \in Names : RWrite(a) \/ RRemove(a) \/ findOrAddFile(a)
    BY <1>3
  <2>2. a # n /\ pc = "script" /\ pc' = pc
    BY <1>3, <2>1 DEF RWrite, RRemove, findOrAddFile, session
  <2>3. ~setupInotify /\ ~Handled /\ \A files, id : ~Watches(files, id)
    BY <2>2 DEF setupInotify, Handled, noteUnknown, noteDelete, noteInsert, noteUpdate, Noted,
      Watches, CreateInserted, Event
  <2>4. n \in manual' => n \in manual
    BY <2>1, <2>2 DEF RWrite, RRemove, findOrAddFile, indexes
  <2>5. FilesHeld(n) /\ SameFile(n)
    <3>1. CASE RWrite(a) \/ RRemove(a)
      <4>1. UNCHANGED <<rows, filesById>>
        BY <3>1 DEF RWrite, RRemove, database, indexes
      <4>2. (n \in Present <=> n \in Present') /\ (n \in Present => disk'[n] = disk[n])
        BY <2>2, <3>1 DEF RWrite, RRemove, Present, With, Without, Restrict
      <4> QED
        BY <4>1, <4>2 DEF FilesHeld, SameFile, Known, KnownNames, RowNames
    <3>2. CASE findOrAddFile(a)
      <4>1. UNCHANGED disk
        BY <3>2 DEF findOrAddFile, dirState
      <4>2. CASE insertDBFile(a) /\ filesById' = newFile(a)
        <5>1. /\ Known' = Known \cup {nextId} /\ filesById'[nextId].name = a
              /\ \A id \in Known : filesById'[id] = filesById[id]
          BY <1>0, <4>2, NewTable DEF Known
        <5> QED
          BY <1>0, <2>2, <4>1, <4>2, <5>1, InsertedBeside
      <4>3. CASE UNCHANGED <<rows, filesById>>
        BY <4>1, <4>3 DEF FilesHeld, SameFile, Known, KnownNames, RowNames, Present
      <4> QED
        BY <3>2, <4>2, <4>3 DEF findOrAddFile, insertRefused, insertFails
    <3> QED
      BY <2>1, <3>1, <3>2
  <2>6. Aside(n)
    BY <1>3, <2>2, <2>3, <2>4, <2>5 DEF Aside
  <2> QED
    BY <1>0, <2>3, <2>6
<1> QED
  BY <1>1, <1>2, <1>3 DEF R

-----------------------------------------------------------------------------
(* What handleInotifyEvent does. *)

\* What the units of R that are left say of a name that is not touched.
LEMMA AgreedFrom ==
  ASSUME NEW n, Agreed(n), SameFile(n), FilesHeld(n), Effective(n) => Effective(n)',
         Ran("deleteSelf", n) => Ran("deleteSelf", n)',
         n \in Present => (Ran("closeWrite", n) => Ran("closeWrite", n)'),
         n \in Present /\ n \notin KnownNames => (Ran("create", n) => Ran("create", n)')
  PROVE  Agreed(n)'
<1>1. n \in KnownNames <=> n \in KnownNames'
  BY DEF SameFile, FilesHeld, KnownNames
<1>2. Matches(n) /\ n \in Present => Matches(n)'
  BY DEF SameFile, Matches
<1> QED
  BY <1>1, <1>2 DEF Agreed, SameFile

\* A branch of handleInotifyEvent takes one event of the batch.
LEMMA RanKept ==
  ASSUME Stepping, NEW n, n \notin excused', NEW kind \in {"create", "closeWrite", "deleteSelf"},
         Ran(kind, n), pc = "inotify" /\ batch # <<>> => Head(batch).kind # kind
  PROVE  Ran(kind, n)'
<1>1. PICK u \in Happened : u.kind = kind /\ u.name = n /\ u.by = "R"
  BY DEF Ran
<1>2. u \in Happened'
  BY <1>1, RKept, SteppingGives
<1> QED
  BY <1>1, <1>2 DEF Ran

LEMMA TableUntouched ==
  ASSUME UNCHANGED <<disk, rows, filesById>>, NEW n PROVE FilesHeld(n) /\ SameFile(n)
  BY DEF FilesHeld, SameFile, Known, KnownNames, RowNames, Present

\* In handleInotifyEvent nothing else runs.
LEMMA InBatch ==
  ASSUME pc = "inotify", NEW n
  PROVE  /\ ~setupInotify /\ ~Handled /\ ~RWrite(n) /\ ~RRemove(n) /\ ~noteInsert
         /\ \A files, id : Watches(files, id) => CreateInserted /\ id = nextId
                                                 /\ files = newFile(Head(batch).name)
  BY DEF setupInotify, Handled, noteUnknown, noteDelete, noteInsert, noteUpdate, Noted,
    Watches, RWrite, RRemove

LEMMA SkipFollows ==
  ASSUME Stepping, CreateSkipped \/ CreateFailed, NEW n, Followed(n)'
  PROVE  Led(n)' /\ Agreed(n)'
<1>0. /\ Typed /\ Typed' /\ CacheInv /\ n \in Names /\ n \notin excused' /\ [Next]_vars /\ Base
      /\ DescriptorInv' /\ Led(n) /\ Agreed(n)
      /\ Aside(n) /\ ~setupInotify => Led(n)' /\ Agreed(n)'
  BY SteppingGives, AsideFollows
<1>1. /\ UNCHANGED <<disk, rows, filesById, manual, pc>> /\ pc = "inotify"
      /\ Head(batch).kind = "create"
  BY DEF CreateSkipped, CreateFailed, insertFails, Event, dirState, database, indexes, session
<1>2. FilesHeld(n) /\ SameFile(n)
  BY <1>1, TableUntouched
<1>3. ~CreateInserted
  <2> DEFINE h == Head(batch).name
  <2> SUFFICES ASSUME CreateInserted PROVE FALSE
    OBVIOUS
  <2>1. Len(batch) > 1
    BY DEF CreateInserted
  <2>2. Len(batch) = 1 \/ h \in manual \cup KnownNames \/ h \notin Present
    BY DEF CreateSkipped, CreateFailed
  <2>3. ASSUME NEW k, k > 1 PROVE k # 1
    BY <2>3
  <2>4. Len(batch) # 1
    BY <2>1, <2>3, Zenon
  <2>5. h \in Present /\ h \notin manual \cup KnownNames
    BY DEF CreateInserted
  <2> HIDE DEF h
  <2> QED
    BY <2>2, <2>4, <2>5
<1>4. /\ ~setupInotify /\ ~Handled /\ ~RWrite(n) /\ ~RRemove(n)
      /\ \A files, id : ~Watches(files, id)
  BY <1>1, <1>3, InBatch
<1>5. CASE ~(Head(batch).name = n /\ Head(batch).by = "R")
  <2>1. Aside(n)
    BY <1>1, <1>2, <1>4, <1>5 DEF Aside
  <2> QED
    BY <1>0, <1>4, <2>1
<1>6. CASE Head(batch).name = n /\ Head(batch).by = "R"
  <2>1. Led(n)'
    <3>1. (n \in Present' => n \in Present) /\ (n \in manual' => n \in manual)
      BY <1>1, <1>2 DEF SameFile
    <3> QED
      BY <1>0, <1>1, <1>2, <1>4, <3>1, LedAside
  <2>2. n \in Present /\ n \notin KnownNames => ~Ran("create", n)
    <3>1. ASSUME n \in Present, n \notin KnownNames PROVE n \in manual
      BY <1>0, <1>6, <3>1 DEF CreateSkipped, CreateFailed, Lost
    <3> QED
      BY <1>0, <3>1 DEF Led, AddedByHand
  <2>3. Effective(n) => Effective(n)'
    BY <1>0, <1>2, <1>4, EffectiveKept
  <2>4. \A kind \in {"closeWrite", "deleteSelf"} : Ran(kind, n) => Ran(kind, n)'
    BY <1>0, <1>1, RanKept
  <2> QED
    BY <1>0, <1>2, <2>1, <2>2, <2>3, <2>4, AgreedFrom
<1> QED
  BY <1>5, <1>6

LEMMA InsertFollows ==
  ASSUME Stepping, CreateInserted, NEW n, Followed(n)', n = Head(batch).name
  PROVE  Led(n)' /\ Agreed(n)'
<1>0. /\ Typed /\ Typed' /\ CacheInv /\ n \in Names /\ n \notin excused' /\ [Next]_vars
      /\ Led(n) /\ WatchesApart /\ QueueInv /\ DescriptorInv
  BY SteppingGives, AsideFollows
<1>1. /\ UNCHANGED <<disk, manual, pc>> /\ n \in Present /\ n \notin manual
      /\ n \notin KnownNames /\ pc = "inotify"
  BY DEF CreateInserted, Event, session
<1>2. insertDBFile(n) /\ watchFile(nextId, newFile(n))
  BY <1>0 DEF CreateInserted, insertRefused, insertFails
<1> DEFINE files == newFile(n)
<1>3. /\ FilesTyped(files) /\ nextId \in DOMAIN files /\ files[nextId].name = n
      /\ DOMAIN files = Known \cup {nextId}
  BY <1>0, InsertTypes, NewTable
<1>4. watchFile(nextId, files)
  BY <1>2
<1> HIDE DEF files
<1>5. PICK wd \in Nat \ {0} : Gives(files, nextId, n, wd)
  BY <1>0, <1>3, <1>4, WatchGiven
<1>6. Known' = Known \cup {nextId} /\ filesById'[nextId].name = n
  BY <1>3, <1>4, WatchedTable
<1>7. /\ watchOf'[n] = wd /\ byWd' = With(byWd, wd, nextId) /\ filesById'[nextId].wd = wd
      /\ wd = watchOf[n] \/ wd = nextWd
  <2>1. /\ watchOf' = [watchOf EXCEPT ![n] = wd] /\ byWd' = With(byWd, wd, nextId)
        /\ wd = watchOf[n] \/ wd = nextWd
        /\ filesById' = [files EXCEPT ![nextId].wd = wd]
    BY <1>5 DEF Gives
  <2>2. filesById'[nextId].wd = wd
    BY <1>3, <2>1 DEF FilesTyped, FileInfo
  <2> QED
    BY <1>0, <2>1, <2>2 DEF Typed, OutsideTyped
<1>8. WatchLeads(n) /\ EventsLead(n) /\ Again(Stream, n) /\ watchOf[n] = 0 /\ wd = nextWd
  BY <1>0, <1>1, <1>5, <1>7, WatchedKnown DEF Led
<1>9. WatchLeads(n)'
  <2>1. nextId \in Known' /\ byWd'[wd] = nextId
    BY <1>6, <1>7 DEF With
  <2> QED
    BY <1>6, <1>7, <2>1 DEF WatchLeads, Leads
<1>10. ~RWrite(n) /\ ~RRemove(n)
  BY <1>1, InBatch
<1>11. EventsLead(n)'
  <2> SUFFICES ASSUME NEW u \in Happened', u.kind \in FileEvents, u.by = "R", u.name = n
               PROVE  u.wd \notin DOMAIN byWd'
    BY DEF EventsLead, Leads
  <2>1. u \in Happened
    BY <1>0, <1>10, NewByR
  <2>2. u.wd \notin DOMAIN byWd
    BY <1>1, <1>8, <2>1, StrangersEvent
  <2>3. u.wd < nextWd
    <3>1. u.wd \in Nat /\ u.wd # 0
      <4>1. u \in EventType
        BY <1>0, <2>1, StreamRange DEF Range
      <4> QED
        BY <1>0, <2>1, <4>1 DEF EventType, DescriptorInv, EventWds
    <3>2. Holds(u.wd, n)
      BY <2>1, <3>1 DEF Holds
    <3> QED
      BY <1>0, <3>1, <3>2 DEF DescriptorInv, OneName
  <2>4. u.wd # wd
    BY <1>0, <1>8, <2>3 DEF Typed, OutsideTyped
  <2> QED
    BY <1>7, <2>2, <2>4 DEF With
<1>12. AddedByHand(n)'
  BY <1>1 DEF AddedByHand
<1>13. Again(Stream, n)'
  <2>1. Again(Stream', n)
    BY <1>0, <1>8, <1>10, AgainKept
  <2> QED
    BY <2>1
<1>14. Agreed(n)'
  BY <1>0, <1>1, <1>2, <1>6, InsertedMatches
<1> QED
  BY <1>9, <1>11, <1>12, <1>13, <1>14 DEF Led

LEMMA InsertedFollows ==
  ASSUME Stepping, CreateInserted, NEW n, Followed(n)'
  PROVE  Led(n)' /\ Agreed(n)'
<1>0. /\ Typed /\ CacheInv /\ n \in Names
      /\ Aside(n) /\ ~setupInotify => Led(n)' /\ Agreed(n)'
  BY SteppingGives, AsideFollows
<1>1. CASE n = Head(batch).name
  BY <1>1, InsertFollows
<1>2. CASE n # Head(batch).name
  <2> DEFINE a == Head(batch).name
  <2>1. UNCHANGED <<disk, manual, pc>> /\ pc = "inotify" /\ a \in Names
    <3>1. Head(batch) \in EventType
      BY <1>0, QueueHead DEF CreateInserted, Event, Typed, QueuesTyped
    <3> QED
      BY <3>1 DEF CreateInserted, Event, session, EventType
  <2>2. \/ insertDBFile(a) /\ watchFile(nextId, newFile(a))
        \/ UNCHANGED <<rows, filesById>>
    BY DEF CreateInserted, insertRefused, insertFails
  <2>3. newFile(a)[nextId].name = a
    BY <1>0, NewTable
  <2>4. FilesTyped(newFile(a)) /\ nextId \in DOMAIN newFile(a)
    BY <1>0, <2>1, InsertTypes
  <2>5. \A files, id : Watches(files, id) => files[id].name # n
    BY <1>2, <2>1, <2>3, InBatch
  <2> HIDE DEF a
  <2>6. FilesHeld(n) /\ SameFile(n)
    <3>1. CASE UNCHANGED <<rows, filesById>>
      BY <2>1, <3>1, TableUntouched
    <3>2. CASE insertDBFile(a) /\ watchFile(nextId, newFile(a))
      <4> DEFINE f == newFile(a)
      <4>1. /\ FilesTyped(f) /\ nextId \in DOMAIN f /\ watchFile(nextId, f) /\ f[nextId].name = a
            /\ DOMAIN f = Known \cup {nextId} /\ nextId \notin Known
            /\ \A id \in Known : f[id] = filesById[id]
        BY <1>0, <2>3, <2>4, <3>2, NewTable
      <4> HIDE DEF f
      <4>2. /\ Known' = Known \cup {nextId} /\ filesById'[nextId].name = a
            /\ \A id \in Known : filesById'[id] = filesById[id]
        BY <4>1, WatchedTable
      <4>3. n # a
        BY <1>2 DEF a
      <4> QED
        BY <1>0, <2>1, <3>2, <4>2, <4>3, InsertedBeside
    <3> QED
      BY <2>2, <3>1, <3>2
  <2>7. Aside(n) /\ ~setupInotify
    BY <1>2, <2>1, <2>5, <2>6, InBatch DEF Aside, a
  <2> QED
    BY <1>0, <2>7
<1> QED
  BY <1>1, <1>2

\* The event at the head of the batch, of a watch that has an entry.
LEMMA HeadsEntry ==
  ASSUME Stepping, CloseWrite \/ DeleteSelf, NEW e, e = Head(batch), NEW id, id = byWd[e.wd]
  PROVE  /\ pc = "inotify" /\ batch # <<>> /\ e \in Happened /\ e \in EventType
         /\ e.kind \in FileEvents /\ e.wd \in DOMAIN byWd /\ e.wd # 0 /\ e.name \in Names
         /\ id \in Nat /\ Named(id, e.name) /\ Holds(e.wd, e.name)
<1>0. Typed /\ DescriptorInv
  BY SteppingGives
<1>1. pc = "inotify" /\ batch # <<>> /\ e.kind \in FileEvents /\ e.wd \in DOMAIN byWd
  BY DEF CloseWrite, DeleteSelf, Event, FileEvents
<1>2. e \in Happened /\ e \in EventType
  <2>1. batch \in Seq(EventType)
    BY <1>0 DEF Typed, QueuesTyped
  <2>2. e \in EventType /\ e = batch[1] /\ 1 \in DOMAIN batch
    BY <1>1, <2>1, QueueHead
  <2> QED
    BY <2>2 DEF Happened, Range
<1>3. e.wd # 0 /\ e.name \in Names /\ id \in Nat
  BY <1>0, <1>1, <1>2 DEF DescriptorInv, EventWds, EventType, Typed, TablesTyped, EntriesTyped
<1>4. Holds(e.wd, e.name)
  BY <1>1, <1>2, <1>3 DEF Holds
<1>5. Named(id, e.name)
  BY <1>0, <1>1, <1>3, <1>4 DEF DescriptorInv, EntriesNamed
<1> QED
  BY <1>1, <1>2, <1>3, <1>4, <1>5

\* What updateDBFile changes.
LEMMA UpdateGives ==
  ASSUME Typed, NEW id, NEW n, Named(id, n), updateDBFile(id, n), disk' = disk
  PROVE  /\ \A m : FilesHeld(m)
         /\ \A m : m # n \/ id \notin Known \/ id \notin DOMAIN rows => SameFile(m)
         /\ id \in Known /\ id \in DOMAIN rows /\ n \in Present =>
              Matches(n)' /\ n \in Present' /\ n \in KnownNames'
<1>1. CASE id \notin Known
  <2>1. UNCHANGED <<disk, rows, filesById>>
    BY <1>1 DEF updateDBFile
  <2> QED
    BY <1>1, <2>1, TableUntouched
<1>2. CASE id \in Known
  <2> DEFINE new == filesById[id].version + 1
  <2>1. filesById' = [filesById EXCEPT ![id].version = new]
    BY <1>2 DEF updateDBFile
  <2>2. /\ filesById[id] \in FileInfo /\ filesById[id].name = n
    BY <1>2 DEF Typed, TablesTyped, FilesTyped, Known, Named
  <2> HIDE DEF new
  <2>3. /\ Known' = Known /\ \A jd \in Known : /\ filesById'[jd].name = filesById[jd].name
                                               /\ filesById'[jd].wd = filesById[jd].wd
    BY <2>1, <2>2 DEF Known, FileInfo
  <2>4. (\A m : FilesHeld(m)) /\ KnownNames' = KnownNames
    BY <2>3 DEF FilesHeld, KnownNames
  <2>5. CASE id \notin DOMAIN rows
    <3>1. UNCHANGED <<disk, rows>>
      BY <1>2, <2>5 DEF updateDBFile
    <3> QED
      BY <2>4, <2>5, <3>1 DEF SameFile, RowNames, Present
  <2>6. CASE id \in DOMAIN rows
    <3>1. rows' = [rows EXCEPT ![id].version = new, ![id].data = disk[n]]
      BY <1>2, <2>6 DEF updateDBFile, new
    <3>2. rows[id] \in RowType /\ rows[id].name = n
      BY <2>6 DEF Typed, OutsideTyped, RowsTyped, Named
    <3>3. /\ DOMAIN rows' = DOMAIN rows /\ rows'[id].name = n /\ rows'[id].data = disk[n]
          /\ \A jd \in DOMAIN rows \ {id} : rows'[jd] = rows[jd]
      BY <2>6, <3>1, <3>2 DEF RowType
    <3>4. \A m : m # n => SameFile(m)
      BY <2>4, <3>2, <3>3 DEF SameFile, RowNames, Present
    <3>5. n \in Present => Matches(n)' /\ n \in Present'
      BY <3>3, <2>6 DEF Matches, Present
    <3>6. n \in KnownNames'
      BY <1>2, <2>2, <2>4 DEF KnownNames
    <3> QED
      BY <1>2, <2>4, <2>6, <3>4, <3>5, <3>6
  <2> QED
    BY <2>5, <2>6
<1> QED
  BY <1>1, <1>2

LEMMA CloseFollows ==
  ASSUME Stepping, CloseWrite, NEW n, Followed(n)'
  PROVE  Led(n)' /\ Agreed(n)'
<1>0. /\ Typed /\ Typed' /\ CacheInv /\ n \in Names /\ n \notin excused' /\ [Next]_vars /\ Base
      /\ DescriptorInv' /\ Led(n) /\ Agreed(n) /\ n \notin excused /\ pc # "load"
      /\ Aside(n) /\ ~setupInotify => Led(n)' /\ Agreed(n)'
  BY SteppingGives, AsideFollows
<1> DEFINE e == Head(batch)
           id == byWd[e.wd]
<1>1. /\ pc = "inotify" /\ batch # <<>> /\ e \in Happened /\ e \in EventType
      /\ e.kind \in FileEvents /\ e.wd \in DOMAIN byWd /\ e.name \in Names
      /\ id \in Nat /\ Named(id, e.name)
  BY HeadsEntry
<1>2. /\ UNCHANGED <<disk, manual, pc>> /\ e.kind = "closeWrite"
      /\ \/ e.name \notin Present /\ UNCHANGED <<rows, filesById>>
         \/ e.name \in Present /\ updateDBFile(id, e.name)
         \/ e.name \in excused' /\ UNCHANGED <<rows, filesById>>
  BY DEF CloseWrite, Event, dirState, session, Lost
<1> HIDE DEF id, e
<1>3. ~CreateInserted
  BY <1>2 DEF CreateInserted, Event, e
<1>4. /\ ~setupInotify /\ ~Handled /\ ~RWrite(n) /\ ~RRemove(n)
      /\ \A files, jd : ~Watches(files, jd)
  BY <1>1, <1>3, InBatch
<1>5. FilesHeld(n)
  BY <1>0, <1>1, <1>2, TableUntouched, UpdateGives
<1>6. Led(n)'
  <2>1. (n \in Present' => n \in Present) /\ (n \in manual' => n \in manual)
    BY <1>2 DEF Present
  <2> QED
    BY <1>0, <1>2, <1>4, <1>5, <2>1, LedAside
<1>7. Effective(n) => Effective(n)'
  BY <1>0, <1>4, <1>5, EffectiveKept
<1>8. ASSUME SameFile(n), n # e.name \/ e.by # "R" PROVE Agreed(n)'
  <2>1. Aside(n)
    BY <1>2, <1>4, <1>5, <1>8 DEF Aside, e
  <2> QED
    BY <1>0, <1>4, <2>1
<1>9. CASE n # e.name
  <2>1. SameFile(n)
    BY <1>0, <1>1, <1>2, <1>9, TableUntouched, UpdateGives
  <2> QED
    BY <1>6, <1>8, <1>9, <2>1
<1>10. CASE n = e.name /\ n \notin Present
  <2>1. SameFile(n)
    BY <1>0, <1>2, <1>10, TableUntouched
  <2>2. Ran("deleteSelf", n) => Ran("deleteSelf", n)'
    BY <1>0, <1>2, RanKept DEF e
  <2> QED
    BY <1>0, <1>5, <1>6, <1>7, <1>10, <2>1, <2>2, AgreedFrom
<1>11. CASE n = e.name /\ n \in Present
  <2>1. updateDBFile(id, n)
    BY <1>0, <1>2, <1>11
  <2>2. CASE id \in Known /\ id \in DOMAIN rows
    <3>1. Matches(n)' /\ n \in Present' /\ n \in KnownNames'
      BY <1>0, <1>1, <1>2, <1>11, <2>1, <2>2, UpdateGives
    <3> QED
      BY <1>6, <3>1 DEF Agreed
  <2>3. CASE id \notin Known \/ id \notin DOMAIN rows
    <3>1. SameFile(n)
      BY <1>0, <1>1, <1>2, <1>11, <2>1, <2>3, UpdateGives
    <3>2. CASE e.by # "R"
      BY <1>6, <1>8, <3>1, <3>2
    <3>3. CASE e.by = "R"
      <4>1. id \in Known /\ filesById[id].name = n
        BY <1>0, <1>1, <1>11, <3>3 DEF Led, EventsLead, Leads, id
      <4>2. Effective(n)
        BY <1>0, <2>3, <4>1, DeletionAnnounced
      <4> QED
        BY <1>6, <1>7, <4>2 DEF Agreed
    <3> QED
      BY <3>2, <3>3
  <2> QED
    BY <2>2, <2>3
<1> QED
  BY <1>9, <1>10, <1>11

\* What removeDBFile changes.
LEMMA RemovalGives ==
  ASSUME NEW id, NEW a, Named(id, a), removeDBFile(id), disk' = disk
  PROVE  /\ \A n : n # a => FilesHeld(n) /\ SameFile(n)
         /\ Known' = Known \ {id} /\ DOMAIN rows' = DOMAIN rows \ {id}
         /\ \A jd \in Known' : filesById'[jd] = filesById[jd]
         /\ \A jd \in DOMAIN rows' : rows'[jd] = rows[jd]
<1>1. /\ Known' = Known \ {id} /\ DOMAIN rows' = DOMAIN rows \ {id}
      /\ \A jd \in Known' : filesById'[jd] = filesById[jd]
      /\ \A jd \in DOMAIN rows' : rows'[jd] = rows[jd]
  BY DEF removeDBFile, Without, Restrict, Known
<1>2. ASSUME NEW n, n # a PROVE FilesHeld(n) /\ SameFile(n)
  <2>1. FilesHeld(n)
    BY <1>1, <1>2 DEF FilesHeld, Named
  <2>2. SameFile(n)
    BY <1>1, <1>2 DEF SameFile, Named, Present, RowNames, KnownNames
  <2> QED
    BY <2>1, <2>2
<1> QED
  BY <1>1, <1>2

LEMMA DeletionFollows ==
  ASSUME Stepping, DeleteSelf, NEW n, Followed(n)', n = Head(batch).name
  PROVE  Led(n)' /\ Agreed(n)'
<1>0. /\ Typed /\ Typed' /\ CacheInv /\ n \in Names /\ n \notin excused' /\ [Next]_vars /\ Base
      /\ DescriptorInv /\ Led(n) /\ Agreed(n) /\ n \notin excused /\ pc # "load"
      /\ FilesUnique /\ QueueInv
  BY SteppingGives, AsideFollows
<1> DEFINE e == Head(batch)
           id == byWd[e.wd]
<1>1. /\ pc = "inotify" /\ batch # <<>> /\ e \in Happened /\ e \in EventType
      /\ e.kind \in FileEvents /\ e.wd \in DOMAIN byWd /\ e.name = n
      /\ id \in Nat /\ Named(id, n)
  BY HeadsEntry
<1>2. e.kind = "deleteSelf" /\ UNCHANGED <<disk, watchOf, manual, pc, kernelQ, input>> /\ Skip(1)
  BY DEF DeleteSelf, Event, dirState, session
<1>3. removeDBFile(id) /\ byWd' = Without(byWd, id)
  BY <1>0 DEF DeleteSelf, forget, Lost
<1> HIDE DEF id
<1>4. /\ DOMAIN byWd' \subseteq DOMAIN byWd /\ \A w \in DOMAIN byWd' : byWd'[w] = byWd[w]
  BY <1>3, Forgets
<1>5. e.by = "R"
  BY <1>0, <1>1, <1>2 DEF DescriptorInv, RemovedUnwatched
<1>6. WatchLeads(n) /\ EventsLead(n) /\ AddedByHand(n) /\ (n \in Present => Again(Stream, n))
  BY <1>0 DEF Led
<1>7. id \in Known /\ filesById[id].name = n /\ filesById[id].wd = e.wd
  BY <1>1, <1>5, <1>6 DEF EventsLead, Leads, id
<1>8. ASSUME NEW jd \in Known, filesById[jd].name = n PROVE jd = id
  BY <1>0, <1>7, <1>8 DEF FilesUnique
<1>9. /\ Stream' = Drop(Stream, 1) /\ 1 \in 0 .. Len(Stream) /\ Stream[1] = e
      /\ 1 \in DOMAIN Stream
  <2>1. 1 <= Len(batch)
    <3>1. batch \in Seq(EventType)
      BY <1>0 DEF Typed, QueuesTyped
    <3> QED
      BY <1>1, <3>1
  <2> QED
    BY <1>0, <1>1, <1>2, <2>1, StreamSkip
<1>10. /\ Stream \in Seq(EventType) /\ Range(Stream) = Happened /\ Range(Stream') = Happened'
       /\ Stream' \in Seq(EventType)
  BY <1>0, StreamRange
<1>11. /\ DOMAIN Stream' = 1 .. Len(Stream) - 1 /\ Len(Stream) \in Nat
       /\ DOMAIN Stream = 1 .. Len(Stream)
       /\ \A i \in 1 .. Len(Stream) - 1 : Stream'[i] = Stream[i + 1] /\ i + 1 \in DOMAIN Stream
  <2>1. Len(Stream) \in Nat /\ DOMAIN Stream = 1 .. Len(Stream)
    BY <1>10
  <2>2. /\ DOMAIN Drop(Stream, 1) = 1 .. Len(Stream) - 1
        /\ \A i \in 1 .. Len(Stream) - 1 :
             Drop(Stream, 1)[i] = Stream[i + 1] /\ i + 1 \in DOMAIN Stream
    BY <1>9, <1>10, Dropped
  <2> QED
    BY <1>9, <2>1, <2>2
<1>12. WatchLeads(n)'
  <2> SUFFICES ASSUME watchOf[n] # 0 PROVE FALSE
    BY <1>2 DEF WatchLeads
  <2>1. PICK jd \in Known : filesById[jd].name = n /\ filesById[jd].wd = watchOf[n]
    BY <1>6 DEF WatchLeads
  <2>2. watchOf[n] = e.wd
    BY <1>7, <1>8, <2>1
  <2> QED
    BY <1>0, <1>1, <1>2, <2>2 DEF DescriptorInv, RemovedUnwatched
<1>13. EventsLead(n)'
  <2> SUFFICES ASSUME NEW u \in Happened', u.kind \in FileEvents, u.by = "R", u.name = n,
                      u.wd \in DOMAIN byWd'
               PROVE  FALSE
    BY DEF EventsLead, Leads
  <2>1. PICK i \in DOMAIN Stream' : u = Stream'[i]
    BY <1>10 DEF Range
  <2>2. i + 1 \in DOMAIN Stream /\ u = Stream[i + 1] /\ 1 < i + 1
    BY <1>11, <2>1
  <2>3. u.wd # e.wd
    <3>1. RemovedLast(Stream)
      BY <1>0 DEF DescriptorInv
    <3> QED
      BY <1>2, <1>9, <2>2, <3>1 DEF RemovedLast
  <2>4. u \in Happened /\ u.wd \in DOMAIN byWd
    BY <1>4, <1>10, <2>2 DEF Range
  <2>5. /\ byWd[u.wd] \in Known /\ filesById[byWd[u.wd]].name = n
        /\ filesById[byWd[u.wd]].wd = u.wd
    BY <1>6, <2>4 DEF EventsLead, Leads
  <2>6. byWd[u.wd] = id
    BY <1>8, <2>5
  <2> QED
    BY <1>7, <2>3, <2>5, <2>6
<1>14. AddedByHand(n)'
  <2>1. n \notin manual
    BY <1>1, <1>2, <1>6 DEF AddedByHand
  <2> QED
    BY <1>2, <2>1 DEF AddedByHand
<1>15. n \in Present' => Again(Stream, n)'
  <2>1. ~RRemove(n) /\ Present' = Present
    BY <1>1, <1>2, InBatch DEF Present
  <2>2. n \in Present => Again(Stream', n)
    BY <1>0, <1>6, <2>1, AgainKept
  <2> QED
    BY <2>1, <2>2
<1>16. /\ Known' = Known \ {id} /\ DOMAIN rows' = DOMAIN rows \ {id}
       /\ \A jd \in Known' : filesById'[jd] = filesById[jd]
       /\ \A jd \in DOMAIN rows' : rows'[jd] = rows[jd]
  BY <1>1, <1>2, <1>3, RemovalGives
<1>17. n \notin KnownNames'
  BY <1>8, <1>16 DEF KnownNames
<1>18. CASE n \in Present
  <2>1. PICK j \in DOMAIN Stream : 1 < j /\ Stream[j].kind = "create" /\ Stream[j].by = "R"
                                   /\ Stream[j].name = n
    BY <1>1, <1>2, <1>6, <1>9, <1>18 DEF Again
  <2>2. j - 1 \in DOMAIN Stream' /\ Stream'[j - 1] = Stream[j]
    BY <1>11, <2>1
  <2>3. Stream[j] \in Happened'
    BY <1>10, <2>2 DEF Range
  <2>4. Ran("create", n)'
    BY <2>1, <2>3 DEF Ran
  <2>5. n \in Present'
    BY <1>2, <1>18 DEF Present
  <2> QED
    BY <1>12, <1>13, <1>14, <1>15, <1>17, <2>4, <2>5 DEF Agreed, Led
<1>19. CASE n \notin Present
  <2>1. n \notin Present'
    BY <1>2, <1>19 DEF Present
  <2>2. CASE n \notin RowNames'
    BY <1>12, <1>13, <1>14, <1>15, <2>1, <2>2 DEF Agreed, Led
  <2>3. CASE n \in RowNames'
    <3>1. PICK jd \in DOMAIN rows' : rows'[jd].name = n
      BY <2>3 DEF RowNames
    <3>2. jd \in DOMAIN rows /\ rows[jd].name = n /\ jd # id
      BY <1>16, <3>1
    <3>3. jd \notin Known
      BY <1>0, <1>8, <3>2 DEF CacheInv, SameNames, Known
    <3>4. PICK m \in Said : m.op = "i" /\ m.name = n
      BY <1>0, <3>2, <3>3, RowAnnounced
    <3>5. m \in Said'
      BY <1>0, <1>1, <3>4, SaidKept
    <3> QED
      BY <1>12, <1>13, <1>14, <1>15, <3>4, <3>5 DEF Agreed, Led, Effective
  <2> QED
    BY <2>2, <2>3
<1> QED
  BY <1>18, <1>19

LEMMA InotifyFollows ==
  ASSUME Stepping, Inotify, NEW n, Followed(n)'
  PROVE  Led(n)' /\ Agreed(n)'
<1>0. /\ Typed /\ Serving'
      /\ Aside(n) /\ ~setupInotify => Led(n)' /\ Agreed(n)'
  BY SteppingGives, AsideFollows
<1>1. CASE handleInotifyEvent \/ CutName \/ CutLongName \/ EndBatch
  BY <1>0, <1>1, IdleAside DEF Idle
<1>2. CASE CreateSkipped \/ CreateFailed
  BY <1>2, SkipFollows
<1>3. CASE CreateInserted
  BY <1>3, InsertedFollows
<1>4. CASE NoEntry
  BY <1>0, <1>4 DEF NoEntry, Serving
<1>5. CASE CloseWrite
  BY <1>5, CloseFollows
<1>6. CASE DeleteSelf /\ n = Head(batch).name
  BY <1>6, DeletionFollows
<1>7. CASE DeleteSelf /\ n # Head(batch).name
  <2> DEFINE e == Head(batch)
             id == byWd[e.wd]
  <2>1. pc = "inotify" /\ Named(id, e.name)
    BY <1>7, HeadsEntry
  <2>2. /\ UNCHANGED <<disk, manual, pc>> /\ e.kind = "deleteSelf"
        /\ removeDBFile(id) \/ UNCHANGED <<rows, filesById>>
    BY <1>7 DEF DeleteSelf, Event, dirState, session
  <2> HIDE DEF id, e
  <2>3. FilesHeld(n) /\ SameFile(n)
    <3>1. n # e.name
      BY <1>7 DEF e
    <3> QED
      BY <2>1, <2>2, <3>1, RemovalGives, TableUntouched
  <2>4. ~CreateInserted
    BY <2>2 DEF CreateInserted, Event, e
  <2>5. Aside(n) /\ ~setupInotify
    BY <1>7, <2>1, <2>2, <2>3, <2>4, InBatch DEF Aside
  <2> QED
    BY <1>0, <2>5
<1> QED
  BY <1>1, <1>2, <1>3, <1>4, <1>5, <1>6, <1>7 DEF Inotify

-----------------------------------------------------------------------------
(* What handleDBNotifications does. *)

\* A name no event of R is queued for.
LEMMA Silent ==
  ASSUME Typed', DescriptorInv', NEW n, ~Heard(n)', pc' # "script"
  PROVE  EventsLead(n)' /\ Again(Stream, n)' /\ AddedByHand(n)'
<1>1. \A u \in Happened' : u.name = n => u.by # "R" /\ u.kind # "deleteSelf"
  BY DEF Heard, DescriptorInv, RemovedUnwatched
<1>2. EventsLead(n)' /\ AddedByHand(n)'
  BY <1>1 DEF EventsLead, AddedByHand, Ran
<1>3. Again(Stream, n)'
  <2>1. Range(Stream') = Happened'
    BY StreamRange
  <2>2. \A i \in DOMAIN Stream' : Stream'[i].name # n \/ Stream'[i].kind # "deleteSelf"
    BY <1>1, <2>1 DEF Range
  <2>3. Again(Stream', n)
    BY <2>2 DEF Again
  <2> QED
    BY <2>3
<1> QED
  BY <1>2, <1>3

\* The notification that is processed, and the name it is about.
LEMMA HeadsName ==
  ASSUME Stepping, noteDelete \/ noteInsert \/ noteUpdate, NEW a, a = Head(notes).name
  PROVE  /\ pc = "notes" /\ notes # <<>> /\ a \in Names /\ Head(notes) \in Said
         /\ noted \in Known => filesById[noted].name = a
         /\ noted \in DOMAIN rows => rows[noted].name = a /\ ~noteDelete
         /\ UNCHANGED <<rows, manual>> /\ pc' # "script"
         /\ \A n : Followed(n)' /\ n = a =>
              EventsLead(n)' /\ Again(Stream, n)' /\ AddedByHand(n)'
<1>0. /\ Typed /\ Typed' /\ CacheInv /\ Base /\ [Next]_vars /\ alive' /\ DescriptorInv'
  BY SteppingGives
<1>1. pc = "notes" /\ notes # <<>>
  BY DEF noteDelete, noteInsert, noteUpdate, Noted
<1>2. Head(notes) \in Said /\ Head(notes) \in Note
  <2>1. notes \in Seq(Note) /\ Notified \in Seq(Note) /\ Notified[1] = Head(notes)
        /\ 1 \in DOMAIN Notified
    BY <1>0, <1>1 DEF Typed, QueuesTyped, Notified
  <2> QED
    BY <1>1, <2>1, QueueHead DEF Said, Range
<1>3. /\ noted \in Known => filesById[noted].name = a
      /\ noted \in DOMAIN rows => rows[noted].name = a /\ Head(notes).op # "d"
  BY <1>0, <1>2 DEF CacheInv, SameNames, Known, noted
<1>4. noteDelete => Head(notes).op = "d"
  BY DEF noteDelete, Noted
<1>5. UNCHANGED <<rows, manual>> /\ pc' # "script"
  BY <1>1 DEF noteDelete, noteInsert, noteUpdate, database, session
<1>6. ASSUME NEW n, Followed(n)', n = a
      PROVE  EventsLead(n)' /\ Again(Stream, n)' /\ AddedByHand(n)'
  <2>1. ~Heard(n)'
    BY <1>0, <1>6, NothingLeft
  <2> QED
    BY <1>0, <1>5, <2>1, Silent
<1> QED
  BY <1>1, <1>2, <1>3, <1>4, <1>5, <1>6 DEF Note

\* In handleDBNotifications nothing else runs.
LEMMA InNotes ==
  ASSUME pc = "notes", NEW n
  PROVE  /\ ~setupInotify /\ ~RWrite(n) /\ ~RRemove(n) /\ ~CreateInserted
         /\ \A files, id : Watches(files, id) =>
              /\ FilesTyped(files) /\ id \in DOMAIN files /\ id = noted /\ noteInsert
              /\ (noted \in DOMAIN rows /\ files = fileFromRow(noted)) \/ files = filesById
  BY DEF setupInotify, Watches, RWrite, RRemove, CreateInserted, Event

LEMMA NotedDeletion ==
  ASSUME Stepping, noteDelete, NEW n, Followed(n)'
  PROVE  Led(n)' /\ Agreed(n)'
<1>0. /\ Typed /\ Typed' /\ CacheInv /\ n \in Names /\ [Next]_vars /\ FilesUnique
      /\ n \notin excused /\ pc # "load" /\ alive'
      /\ Aside(n) /\ ~setupInotify => Led(n)' /\ Agreed(n)'
  BY SteppingGives, AsideFollows
<1> DEFINE a == Head(notes).name
<1>1. /\ pc = "notes" /\ notes # <<>> /\ noted \in Known /\ filesById[noted].name = a
      /\ noted \notin DOMAIN rows /\ UNCHANGED <<rows, manual>> /\ Head(notes).op = "d"
      /\ n = a => EventsLead(n)' /\ Again(Stream, n)' /\ AddedByHand(n)'
  BY HeadsName DEF noteDelete, Noted
<1>2. /\ disk' = Without(disk, a) /\ filesById' = Without(filesById, noted) /\ pc' = pc
  BY <1>1 DEF noteDelete, session
<1>3. watchOf'[a] = 0
  <2>1. watchOf \in [Dirs -> Nat] /\ a \in Dirs
    BY <1>0, <1>1 DEF Typed, OutsideTyped, TablesTyped, FilesTyped, FileInfo, Dirs, Known
  <2>2. PICK w : watchOf' = [m \in DOMAIN watchOf |->
                               IF m = a \/ watchOf[m] = w THEN 0 ELSE watchOf[m]]
    <3>1. PICK w : watchOf' = [m \in DOMAIN watchOf |->
                                 IF m = filesById[noted].name \/ watchOf[m] = w THEN 0
                                 ELSE watchOf[m]]
      BY DEF noteDelete
    <3>2. filesById[noted].name = a
      BY <1>1
    <3> HIDE DEF a
    <3>3. watchOf' = [m \in DOMAIN watchOf |-> IF m = a \/ watchOf[m] = w THEN 0 ELSE watchOf[m]]
      BY <3>1, <3>2
    <3> QED
      BY <3>3
  <2> QED
    BY <2>1, <2>2
<1> HIDE DEF a
<1>4. /\ Known' = Known \ {noted} /\ \A jd \in Known' : filesById'[jd] = filesById[jd]
      /\ Present' = Present \ {a} /\ \A m \in Present' : disk'[m] = disk[m]
  BY <1>2 DEF Known, Present, Without, Restrict
<1>5. CASE n # a
  <2>1. FilesHeld(n)
    BY <1>1, <1>4, <1>5 DEF FilesHeld
  <2>2. SameFile(n)
    BY <1>1, <1>4, <1>5 DEF SameFile, RowNames, KnownNames
  <2>3. ~noteInsert
    BY <1>1 DEF noteInsert, Noted
  <2>4. Aside(n) /\ ~setupInotify
    BY <1>1, <1>2, <1>5, <2>1, <2>2, <2>3, InNotes DEF Aside, a
  <2> QED
    BY <1>0, <2>4
<1>6. CASE n = a
  <2>1. n \notin Present' /\ WatchLeads(n)'
    BY <1>3, <1>4, <1>6 DEF WatchLeads
  <2>2. Led(n)'
    BY <1>1, <1>6, <2>1 DEF Led
  <2>3. CASE n \notin RowNames'
    BY <2>1, <2>2, <2>3 DEF Agreed
  <2>4. CASE n \in RowNames'
    <3>1. PICK jd \in DOMAIN rows : rows[jd].name = n
      BY <1>1, <2>4 DEF RowNames
    <3>2. jd \notin Known
      <4>1. ASSUME jd \in Known PROVE jd = noted
        BY <1>0, <1>1, <1>6, <3>1, <4>1 DEF CacheInv, SameNames, FilesUnique, Known
      <4> QED
        BY <1>1, <3>1, <4>1
    <3>3. PICK m \in Said : m.op = "i" /\ m.name = n
      BY <1>0, <3>1, <3>2, RowAnnounced
    <3>4. m \in Said'
      BY <1>0, <1>1, <3>3, SaidKept
    <3> QED
      BY <2>2, <3>3, <3>4 DEF Agreed, Effective
  <2> QED
    BY <2>3, <2>4
<1> QED
  BY <1>5, <1>6

\* A file object the row no longer backs: its deletion is still to be processed.
LEMMA RowGone ==
  ASSUME Stepping, NEW n, Followed(n)', noteInsert \/ noteUpdate, n = Head(notes).name,
         noted \in Known, noted \notin DOMAIN rows, Known' = Known
  PROVE  Agreed(n)'
<1>0. /\ Typed /\ CacheInv /\ n \notin excused /\ pc # "load" /\ [Next]_vars
      /\ filesById[noted].name = n
  BY SteppingGives, AsideFollows, HeadsName
<1>1. PICK m \in Said : m.op = "d" /\ m.id = noted /\ m.name = n
  BY <1>0, DeletionAnnounced
<1>2. Head(notes).op # "d"
  BY DEF noteInsert, noteUpdate, Noted
<1>3. m \in Said'
  BY <1>0, <1>1, <1>2, SaidKept
<1> QED
  BY <1>1, <1>3 DEF Agreed, Effective

\* What writeFile leaves in the directory.
LEMMA WrittenMatches ==
  ASSUME Stepping, NEW n, noted \in DOMAIN rows, rows' = rows, n = rows[noted].name,
         writeFile(n, rows[noted].data), noted \in Known', filesById'[noted].name = n
  PROVE  Agreed(n)'
<1>1. n \in Present' /\ disk'[n] = rows[noted].data
  BY DEF writeFile, With, Present
<1>2. Matches(n)'
  BY <1>1 DEF Matches
<1>3. n \in KnownNames'
  BY DEF KnownNames
<1> QED
  BY <1>1, <1>2, <1>3 DEF Agreed

LEMMA NotedUpdate ==
  ASSUME Stepping, noteUpdate, NEW n, Followed(n)'
  PROVE  Led(n)' /\ Agreed(n)'
<1>0. /\ Typed /\ Typed' /\ CacheInv /\ n \in Names /\ [Next]_vars /\ Led(n)
      /\ n \notin excused' /\ pc # "load" /\ alive'
      /\ Aside(n) /\ ~setupInotify => Led(n)' /\ Agreed(n)'
  BY SteppingGives, AsideFollows
<1> DEFINE a == Head(notes).name
<1>1. /\ pc = "notes" /\ notes # <<>> /\ noted \in Known /\ filesById[noted].name = a
      /\ noted \in DOMAIN rows => rows[noted].name = a
      /\ UNCHANGED <<rows, manual>>
      /\ n = a => EventsLead(n)' /\ Again(Stream, n)' /\ AddedByHand(n)'
  BY HeadsName DEF noteUpdate
<1>2. /\ UNCHANGED <<watchOf, byWd, pc>>
      /\ \/ /\ noted \in DOMAIN rows /\ writeFile(a, rows[noted].data)
            /\ filesById' = fileFromRow(noted)
         \/ UNCHANGED <<disk, filesById>> /\ (noted \notin DOMAIN rows \/ a \in excused')
  BY <1>1 DEF noteUpdate, session
<1>3. ~noteInsert
  BY DEF noteInsert, noteUpdate, Noted
<1> HIDE DEF a
<1>4. /\ Known' = Known
      /\ \A jd \in Known : filesById'[jd].name = filesById[jd].name
                           /\ filesById'[jd].wd = filesById[jd].wd
  <2>1. CASE noted \in DOMAIN rows /\ filesById' = fileFromRow(noted)
    BY <1>0, <1>1, <2>1, FromRow, RowKept DEF Known
  <2> QED
    BY <1>2, <2>1 DEF Known
<1>5. \A m : FilesHeld(m)
  BY <1>4 DEF FilesHeld
<1>6. CASE n # a
  <2>1. (n \in Present <=> n \in Present') /\ (n \in Present => disk'[n] = disk[n])
    BY <1>2, <1>6 DEF writeFile, With, Present
  <2>2. SameFile(n)
    BY <1>1, <1>4, <2>1 DEF SameFile, RowNames, KnownNames
  <2>3. Aside(n) /\ ~setupInotify
    BY <1>1, <1>2, <1>3, <1>5, <1>6, <2>2, InNotes DEF Aside, a
  <2> QED
    BY <1>0, <2>3
<1>7. CASE n = a
  <2>1. WatchLeads(n)'
    BY <1>0, <1>2, <1>4 DEF WatchLeads, Leads, Led
  <2>2. Led(n)'
    BY <1>1, <1>7, <2>1 DEF Led
  <2>3. Agreed(n)'
    <3>1. CASE noted \in DOMAIN rows /\ writeFile(a, rows[noted].data)
      BY <1>1, <1>4, <1>7, <3>1, WrittenMatches
    <3>2. CASE noted \notin DOMAIN rows
      BY <1>1, <1>4, <1>7, <3>2, RowGone DEF a
    <3> QED
      BY <1>0, <1>2, <1>7, <3>1, <3>2
  <2> QED
    BY <2>2, <2>3
<1> QED
  BY <1>6, <1>7

LEMMA WatchedLeads ==
  ASSUME Typed, WatchesApart, NEW files, FilesTyped(files), NEW id \in DOMAIN files,
         watchFile(id, files), NEW n, n = files[id].name
  PROVE  WatchLeads(n)'
<1>1. PICK wd \in Nat \ {0} : Gives(files, id, n, wd)
  BY WatchGiven
<1>2. n \in Dirs /\ watchOf \in [Dirs -> Nat] /\ files[id] \in FileInfo
  BY DEF FilesTyped, FileInfo, Dirs, Typed, OutsideTyped
<1>3. /\ watchOf'[n] = wd /\ byWd' = With(byWd, wd, id)
      /\ filesById'[id].wd = wd /\ filesById'[id].name = n /\ id \in Known'
  BY <1>1, <1>2 DEF Gives, FileInfo, Known
<1>4. byWd'[wd] = id
  BY <1>3 DEF With
<1> QED
  BY <1>3, <1>4 DEF WatchLeads, Leads

LEMMA NotedInsert ==
  ASSUME Stepping, noteInsert, NEW n, Followed(n)'
  PROVE  Led(n)' /\ Agreed(n)'
<1>0. /\ Typed /\ Typed' /\ CacheInv /\ n \in Names /\ [Next]_vars /\ Led(n) /\ WatchesApart
      /\ n \notin excused' /\ pc # "load" /\ alive'
      /\ Aside(n) /\ ~setupInotify => Led(n)' /\ Agreed(n)'
  BY SteppingGives, AsideFollows
<1> DEFINE a == Head(notes).name
<1>1. /\ pc = "notes" /\ notes # <<>>
      /\ noted \in Known => filesById[noted].name = a
      /\ noted \in DOMAIN rows => rows[noted].name = a
      /\ UNCHANGED <<rows, manual>> /\ Head(notes).op = "i"
      /\ n = a => EventsLead(n)' /\ Again(Stream, n)' /\ AddedByHand(n)'
  BY HeadsName DEF noteInsert, Noted
<1>2. PICK ok \in BOOLEAN :
        /\ ok \/ a \in excused'
        /\ CASE ok /\ noted \in DOMAIN rows ->
                  /\ writeFile(a, rows[noted].data)
                  /\ watchFile(noted, fileFromRow(noted))
                  /\ UNCHANGED <<pc, alive>>
             [] ~(ok /\ noted \in DOMAIN rows) /\ noted \in Known ->
                  /\ IF a \in Present THEN watchFile(noted, filesById)
                     ELSE UNCHANGED <<watchOf, nextWd, filesById, byWd>>
                  /\ UNCHANGED <<disk, kernelQ, pc, alive, outrun>>
             [] OTHER ->
                  /\ alive' = FALSE /\ pc' = "crashed"
                  /\ UNCHANGED <<dirState, filesById, byWd, kernelQ, outrun>>
  <2>1. CASE noted \in DOMAIN rows
    BY <1>1, <2>1 DEF noteInsert
  <2>2. CASE noted \notin DOMAIN rows /\ noted \in Known
    BY <1>1, <2>2 DEF noteInsert
  <2>3. CASE noted \notin DOMAIN rows /\ noted \notin Known
    BY <1>1, <2>3 DEF noteInsert
  <2> QED
    BY <2>1, <2>2, <2>3
<1>3. /\ pc' = pc
      /\ \/ /\ noted \in DOMAIN rows /\ writeFile(a, rows[noted].data)
            /\ watchFile(noted, fileFromRow(noted))
         \/ /\ noted \in Known /\ (noted \notin DOMAIN rows \/ a \in excused')
            /\ UNCHANGED disk
            /\ \/ watchFile(noted, filesById)
               \/ a \notin Present /\ UNCHANGED <<watchOf, filesById, byWd>>
  BY <1>0, <1>2
<1> HIDE DEF a
<1>4. CASE /\ noted \in DOMAIN rows /\ writeFile(a, rows[noted].data)
           /\ watchFile(noted, fileFromRow(noted))
  <2> DEFINE files == fileFromRow(noted)
  <2>1. /\ FilesTyped(files) /\ noted \in DOMAIN files /\ watchFile(noted, files)
        /\ DOMAIN files = Known \cup {noted} /\ files[noted].name = a
        /\ \A jd \in Known \ {noted} : files[jd] = filesById[jd]
    BY <1>0, <1>1, <1>4, FromRow, FileFromRowTypes
  <2> HIDE DEF files
  <2>2. /\ Known' = Known \cup {noted} /\ filesById'[noted].name = a
        /\ \A jd \in Known \ {noted} : filesById'[jd] = filesById[jd]
    BY <2>1, WatchedTable
  <2>3. CASE n # a
    <3>1. FilesHeld(n)
      BY <1>1, <2>2, <2>3 DEF FilesHeld
    <3>2. (n \in Present <=> n \in Present') /\ (n \in Present => disk'[n] = disk[n])
      BY <1>4, <2>3 DEF writeFile, With, Present
    <3>3. n \in KnownNames' => n \in KnownNames
      BY <2>2, <2>3 DEF KnownNames
    <3>4. SameFile(n)
      BY <1>1, <3>2, <3>3 DEF SameFile, RowNames
    <3>5. fileFromRow(noted)[noted].name # n
      BY <2>1, <2>3 DEF files
    <3>6. \A fs, id : Watches(fs, id) => fs[id].name # n
      BY <1>1, <2>3, <3>5, InNotes DEF Known
    <3>7. Aside(n) /\ ~setupInotify
      BY <1>1, <1>3, <2>3, <3>1, <3>4, <3>6, InNotes DEF Aside, a
    <3> QED
      BY <1>0, <3>7
  <2>4. CASE n = a
    <3>1. WatchLeads(n)'
      BY <1>0, <2>1, <2>4, WatchedLeads
    <3>2. Agreed(n)'
      BY <1>1, <1>4, <2>2, <2>4, WrittenMatches
    <3> QED
      BY <1>1, <2>4, <3>1, <3>2 DEF Led
  <2> QED
    BY <2>3, <2>4
<1>5. CASE /\ noted \in Known /\ (noted \notin DOMAIN rows \/ a \in excused')
           /\ UNCHANGED disk
           /\ \/ watchFile(noted, filesById)
              \/ a \notin Present /\ UNCHANGED <<watchOf, filesById, byWd>>
  <2>1. FilesTyped(filesById)
    BY <1>0 DEF Typed, TablesTyped
  <2>2. /\ Known' = Known
        /\ \A jd \in Known : filesById'[jd].name = filesById[jd].name
        /\ \A jd \in Known \ {noted} : filesById'[jd] = filesById[jd]
    <3>1. CASE watchFile(noted, filesById)
      <4> DEFINE files == filesById
      <4>1. FilesTyped(files) /\ noted \in DOMAIN files /\ watchFile(noted, files)
        BY <1>5, <2>1, <3>1 DEF Known
      <4>2. files = filesById
        OBVIOUS
      <4> HIDE DEF files
      <4>3. /\ Known' = DOMAIN files /\ filesById'[noted].name = files[noted].name
            /\ \A jd \in DOMAIN files \ {noted} : filesById'[jd] = files[jd]
        BY <4>1, WatchedTable
      <4> QED
        BY <4>2, <4>3 DEF Known
    <3>2. CASE UNCHANGED filesById
      BY <3>2 DEF Known
    <3> QED
      BY <1>5, <3>1, <3>2
  <2>3. CASE n # a
    <3>1. FilesHeld(n)
      BY <1>1, <2>2, <2>3 DEF FilesHeld
    <3>2. n \in KnownNames' => n \in KnownNames
      BY <2>2, <2>3 DEF KnownNames
    <3>3. SameFile(n)
      BY <1>1, <1>5, <3>2 DEF SameFile, RowNames, Present
    <3>4. noted \in DOMAIN rows => fileFromRow(noted)[noted].name # n
      BY <1>0, <1>1, <2>3, FromRow
    <3>5. \A fs, id : Watches(fs, id) => fs[id].name # n
      BY <1>1, <2>3, <3>4, InNotes DEF Known
    <3>6. Aside(n) /\ ~setupInotify
      BY <1>1, <1>3, <2>3, <3>1, <3>3, <3>5, InNotes DEF Aside, a
    <3> QED
      BY <1>0, <3>6
  <2>4. CASE n = a
    <3>1. WatchLeads(n)'
      <4>1. CASE watchFile(noted, filesById)
        <5>1. filesById[noted].name = n /\ noted \in DOMAIN filesById
          BY <1>1, <1>5, <2>4 DEF Known
        <5> QED
          BY <1>0, <2>1, <4>1, <5>1, WatchedLeads
      <4>2. CASE UNCHANGED <<watchOf, filesById, byWd>>
        BY <1>0, <2>2, <4>2 DEF WatchLeads, Leads, Led, Known
      <4> QED
        BY <1>5, <4>1, <4>2
    <3>2. Agreed(n)'
      BY <1>0, <1>5, <2>2, <2>4, RowGone DEF a
    <3> QED
      BY <1>1, <2>4, <3>1, <3>2 DEF Led
  <2> QED
    BY <2>3, <2>4
<1> QED
  BY <1>3, <1>4, <1>5

LEMMA NotificationsFollow ==
  ASSUME Stepping, Notifications, NEW n, Followed(n)'
  PROVE  Led(n)' /\ Agreed(n)'
<1>0. /\ Typed /\ Serving'
      /\ Aside(n) /\ ~setupInotify => Led(n)' /\ Agreed(n)'
  BY SteppingGives, AsideFollows
<1>1. CASE handleDBNotifications \/ noteUnknown \/ EndNotes
  BY <1>0, <1>1, IdleAside DEF Idle
<1>2. CASE noteDelete \/ noteInsert \/ noteUpdate
  BY <1>2, NotedDeletion, NotedInsert, NotedUpdate
<1> QED
  BY <1>1, <1>2 DEF Notifications

-----------------------------------------------------------------------------
(* The directory follows the database. *)

\* A process that crashed stays so, and files are served only after connect.
LEMMA StaysDead == ASSUME [Next]_vars, ~alive PROVE ~alive'
<1>1. CASE noteInsert
  <2>1. PICK ok \in BOOLEAN : CASE ok /\ noted \in DOMAIN rows -> alive' = alive
                                [] ~(ok /\ noted \in DOMAIN rows) /\ noted \in Known -> alive' = alive
                                [] OTHER -> alive' = FALSE
    <3>1. CASE noted \in DOMAIN rows
      BY <1>1, <3>1 DEF noteInsert
    <3>2. CASE noted \notin DOMAIN rows /\ noted \in Known
      BY <1>1, <3>2 DEF noteInsert
    <3>3. CASE noted \notin DOMAIN rows /\ noted \notin Known
      BY <1>1, <3>3 DEF noteInsert
    <3> QED
      BY <3>1, <3>2, <3>3
  <2> QED
    BY <2>1
<1>2. CASE ~noteInsert
  <2>1. Startup \/ handleIgnoreFSNotesOff \/ UNCHANGED vars => alive' = alive
    BY DEF Startup, connect, setupInotify, listen, handleIgnoreFSNotesOff, vars, session
  <2>2. R \/ Others => alive' = alive
    BY DEF R, StartScript, EndScript, RWrite, RRemove, findOrAddFile, Others, ForeignInsert,
      ForeignUpdate, ForeignDelete, Foreign, session
  <2>3. Inotify => alive' = alive \/ alive' = FALSE
    BY DEF Inotify, handleInotifyEvent, CutName, CutLongName, CreateSkipped, CreateFailed,
        CreateInserted, NoEntry,
      CloseWrite, DeleteSelf, EndBatch, session
  <2>4. Notifications => alive' = alive
    BY <1>2 DEF Notifications, handleDBNotifications, noteUnknown, noteDelete, noteUpdate,
      EndNotes, session
  <2> QED
    BY <2>1, <2>2, <2>3, <2>4 DEF Next
<1> QED
  BY <1>1, <1>2

LEMMA StaysUnloaded == ASSUME [Next]_vars, pc = "load", ~connect PROVE pc' = "load"
<1>1. ~setupInotify /\ ~listen /\ ~R /\ ~Inotify /\ ~Notifications /\ ~handleIgnoreFSNotesOff
  BY DEF setupInotify, listen, R, StartScript, EndScript, RWrite, RRemove, findOrAddFile,
    Inotify, handleInotifyEvent, CutName, CutLongName, CreateSkipped, CreateFailed, CreateInserted, NoEntry, CloseWrite,
    DeleteSelf, EndBatch, Event, Notifications, handleDBNotifications, noteUnknown, noteDelete,
    noteInsert, noteUpdate, Noted, EndNotes, handleIgnoreFSNotesOff
<1>2. Others => pc' = pc
  BY DEF Others, ForeignInsert, ForeignUpdate, ForeignDelete, Foreign, session
<1> QED
  BY <1>1, <1>2 DEF Next, Startup, vars, session

LEMMA StepDisk == Base /\ Base' /\ DiskInv /\ [Next]_vars => DiskInv'
<1> SUFFICES ASSUME Base, Base', DiskInv, [Next]_vars PROVE DiskInv'
  OBVIOUS
<1>1. CASE UNCHANGED vars
  <2>1. /\ UNCHANGED <<disk, watchOf, rows, notes, wire, filesById, byWd, manual>>
        /\ UNCHANGED <<kernelQ, input, batch, pc, alive, excused, outrun>>
    BY <1>1 DEF vars, dirState, database, dbQueues, indexes, fsQueues, session, history
  <2>2. /\ Present' = Present /\ Known' = Known /\ KnownNames' = KnownNames
        /\ RowNames' = RowNames /\ Happened' = Happened /\ Stream' = Stream /\ Said' = Said
        /\ Serving' = Serving
    BY <2>1 DEF Present, Known, KnownNames, RowNames, Happened, Stream, Said, Notified, Serving
  <2>3. \A n : Followed(n)' => Followed(n)
    BY <2>1, <2>2 DEF Followed, Doomed, Heard
  <2>4. ASSUME NEW n, Led(n) PROVE Led(n)'
    <3>1. WatchLeads(n)' /\ EventsLead(n)' /\ AddedByHand(n)'
      BY <2>1, <2>2, <2>4 DEF Led, WatchLeads, EventsLead, AddedByHand, Leads, Ran
    <3>2. Again(Stream, n) => Again(Stream', n)
      BY <2>2
    <3>3. Again(Stream', n) => Again(Stream, n)'
      OBVIOUS
    <3> QED
      BY <2>2, <2>4, <3>1, <3>2, <3>3 DEF Led
  <2>5. \A n : Agreed(n) => Agreed(n)'
    BY <2>1, <2>2 DEF Agreed, Effective, Matches, Ran
  <2> QED
    BY <2>2, <2>3, <2>4, <2>5 DEF DiskInv
<1>2. ASSUME Serving', NEW n \in Names, Followed(n)', ~UNCHANGED vars
      PROVE  Led(n)' /\ Agreed(n)'
  <2>1. CASE connect
    BY <1>2, <2>1, ConnectFollows
  <2>2. CASE ~connect
    <3>1. Serving
      <4>1. alive
        BY <1>2, StaysDead DEF Serving
      <4>2. pc # "load"
        BY <1>2, <2>2, StaysUnloaded DEF Serving
      <4> QED
        BY <4>1, <4>2 DEF Serving
    <3>2. Stepping
      BY <1>2, <3>1 DEF Stepping
    <3>3. CASE Startup
      <4>1. CASE setupInotify
        BY <1>2, <3>2, <4>1, SetupFollows
      <4>2. CASE listen
        BY <1>2, <3>2, <4>2, AsideFollows, IdleAside, SteppingGives DEF Idle
      <4> QED
        BY <2>2, <3>3, <4>1, <4>2 DEF Startup
    <3>4. CASE R
      BY <1>2, <3>2, <3>4, RFollows
    <3>5. CASE Others
      BY <1>2, <3>2, <3>5, OthersFollow
    <3>6. CASE Inotify
      BY <1>2, <3>2, <3>6, InotifyFollows
    <3>7. CASE Notifications
      BY <1>2, <3>2, <3>7, NotificationsFollow
    <3>8. CASE handleIgnoreFSNotesOff
      BY <1>2, <3>2, <3>8, AsideFollows, IdleAside, SteppingGives DEF Idle
    <3> QED
      BY <1>2, <3>3, <3>4, <3>5, <3>6, <3>7, <3>8 DEF Next
  <2> QED
    BY <2>1, <2>2
<1> QED
  BY <1>1, <1>2 DEF DiskInv

LEMMA AlwaysBase == Spec => []Base
<1>1. Init => OwnEventsOnly
  BY DEF Init, OwnEventsOnly
<1>2. /\ Everything /\ Everything' /\ DescriptorInv /\ [Next]_vars => DescriptorInv'
      /\ Everything => Typed
  BY StepDescriptors DEF Everything
<1> QED
  BY <1>1, <1>2, StepOwnEvents, InitDescriptors, AlwaysTyped, AlwaysCache, AlwaysNotes,
     AlwaysFilesUnique, AlwaysApart, AlwaysQueue, AlwaysBack, PTL DEF Spec, Everything, Base

\* Once the rows were loaded, a file exists exactly when it has a row and holds
\* the row's content, unless an event of R's or a notification about it is still
\* to be processed, one was lost, or a notification changed the file while an
\* event of R's about it was left in the bufferevent (handleInotifyEvent,
\* processDBNotification, loadFiles).
THEOREM DirectoryFollowsDatabase == Spec => []DiskCoherent
<1>1. Init => DiskInv
  BY DEF Init, DiskInv, Serving
<1>2. Typed /\ DiskInv => DiskCoherent
  <2> SUFFICES ASSUME Typed, DiskInv, Serving, NEW n \in Names, n \notin excused, n \notin outrun,
                      ~\E i \in DOMAIN Units : Units[i].name = n /\ Units[i].by = "R",
                      ~\E i \in DOMAIN Notified : Notified[i].name = n
               PROVE  \/ n \notin Present \cup RowNames
                      \/ n \in Present /\ \E id \in DOMAIN rows : rows[id].name = n
                                                               /\ rows[id].data = disk[n]
    BY DEF DiskCoherent
  <2>1. ~Heard(n)
    <3>1. Range(Units) = Happened
      BY RangeFacts, Joined DEF Typed, QueuesTyped, Units, Happened
    <3> QED
      BY <3>1 DEF Heard, Range
  <2>2. \A m \in Said : m.name # n
    BY DEF Said, Range
  <2>3. Followed(n)
    BY <2>1 DEF Followed, Doomed
  <2>4. Agreed(n)
    BY <2>3 DEF DiskInv
  <2>5. \A kind : ~Ran(kind, n)
    BY <2>1 DEF Ran, Heard
  <2> QED
    BY <2>2, <2>4, <2>5 DEF Agreed, Effective, Matches
<1> QED
  BY <1>1, <1>2, StepDisk, AlwaysTyped, AlwaysBase, PTL DEF Spec
=============================================================================
