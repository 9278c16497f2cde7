--------------------------- MODULE InputBufferProofs ---------------------------
(***************************************************************************)
(* What comes out of the session's input is whole commands, and the input  *)
(* implements the channel of FrameChannel, for texts of any size and any   *)
(* number of frames, of which less than two gigabytes are under way.       *)
(*                                                                         *)
(* StreamInv describes the bytes under way without saying how many frames  *)
(* they are: they run up to the end of the last frame, every byte stands   *)
(* at its distance from the other bytes of its frame, and only the first   *)
(* frame may have lost its front.  From it follows what appendData can     *)
(* take for a header: the header of a frame, or the second half of the     *)
(* header of a frame whose text is as long as the magic number says, in    *)
(* which case the text is read as a length too large for any buffer.       *)
(***************************************************************************)
EXTENDS InputBuffer, FiniteSetTheorems, SequenceTheorems, TLAPS

U == UnderWay

\* Where the frame of the byte at i ends.
EndOf(i) == i + HeaderSize + sizes[U[i].frame] - U[i].pos

ByteInv(i) ==
  /\ U[i].frame \in 1 .. Len(sizes)
  /\ U[i].pos \in 1 .. HeaderSize + sizes[U[i].frame]
  /\ U[i].val = ByteValue(U[i].pos, sizes[U[i].frame])
  /\ EndOf(i) <= Len(U)

PairInv(i, j) ==
  /\ U[j].frame = U[i].frame <=> (i - U[i].pos < j /\ j <= EndOf(i))
  /\ U[j].frame = U[i].frame => U[j].pos - U[i].pos = j - i
  /\ i < j => U[i].frame <= U[j].frame

StreamInv ==
  /\ \A i \in 1 .. Len(U) : ByteInv(i)
  /\ \A i, j \in 1 .. Len(U) : PairInv(i, j)
  /\ Len(U) < TextAsLength

AlignedInv ==
  ~overlapped =>
    IF U = <<>> THEN Len(messages) = Len(sizes)
    ELSE /\ U = Frame(Len(sizes), sizes[Len(sizes)])
         /\ Len(messages) = Len(sizes) - 1

MessagesInv ==
  /\ MessagesWhole
  /\ \A k \in 1 .. Len(messages) : messages[k][1].frame \in 1 .. Len(sizes)

\* A frame is in flight when its first byte is under way.
FirstBytes == {f \in 1 .. Len(sizes) :
                 \E i \in 1 .. Len(U) : U[i].frame = f /\ U[i].pos = 1}
FlightInv == InFlight = FirstBytes

-----------------------------------------------------------------------------
(* Sequences of bytes. *)

\* The four bytes of a length, and the length they are.
LEMMA LengthBytes ==
  ASSUME NEW n \in 1 .. TextAsLength
  PROVE  LET a == ((n \div 256) \div 256) \div 256
             b == ((n \div 256) \div 256) % 256
             c == (n \div 256) % 256
             d == n % 256
         IN  /\ {a, b, c, d} \subseteq 0 .. 255
             /\ ((a * 256 + b) * 256 + c) * 256 + d = n
<1>1. n \in Nat /\ n < 124 * (256 * (256 * 256))
  <2>1. TextAsLength \in Int /\ TextAsLength < 124 * (256 * (256 * 256))
    <3>1. TextAsLength = ((123 * 256 + 123) * 256 + 123) * 256 + 123
      BY DEF TextAsLength, TextByte
    <3>2. ((123 * 256 + 123) * 256 + 123) * 256 + 123 \in Int
      OBVIOUS
    <3>3. ((123 * 256 + 123) * 256 + 123) * 256 + 123 < 124 * (256 * (256 * 256))
      OBVIOUS
    <3> QED
      BY <3>1, <3>2, <3>3
  <2> QED
    BY <2>1
<1> DEFINE m == n \div 256
           k == m \div 256
<1>2. /\ m \in Nat /\ n % 256 \in 0 .. 255 /\ m < 124 * (256 * 256)
      /\ n = m * 256 + (n % 256)
  BY <1>1
<1>3. /\ k \in Nat /\ m % 256 \in 0 .. 255 /\ k < 124 * 256
      /\ m = k * 256 + (m % 256)
  <2> HIDE DEF m
  <2> QED
    BY <1>2
<1>4. /\ k \div 256 \in Nat /\ k % 256 \in 0 .. 255 /\ k \div 256 < 124
      /\ k = (k \div 256) * 256 + (k % 256)
  <2> HIDE DEF k
  <2> QED
    BY <1>3
<1> QED
  BY <1>2, <1>3, <1>4

LEMMA FrameBytes ==
  ASSUME NEW f \in 1 .. MaxFrames, NEW n \in TextSizes
  PROVE  /\ Frame(f, n) \in Seq(Bytes)
         /\ Len(Frame(f, n)) = HeaderSize + n /\ n \in Nat \ {0}
         /\ \A j \in 1 .. HeaderSize + n :
              Frame(f, n)[j] = [frame |-> f, pos |-> j, val |-> ByteValue(j, n)]
<1> DEFINE F == Frame(f, n)
<1>1. n \in Nat \ {0} /\ n \in 1 .. TextAsLength /\ HeaderSize = 8
  BY TextSizesAssumption DEF HeaderSize
<1>2. \A j \in 1 .. 8 + n : ByteValue(j, n) \in 0 .. 255
  BY <1>1, LengthBytes DEF ByteValue, TextByte, kRSessionMagicNumber
<1>3. F \in [1 .. 8 + n -> Bytes]
  BY <1>1, <1>2 DEF Frame, Bytes
<1>4. 8 + n \in Nat /\ F \in Seq(Bytes)
  <2>1. 8 + n \in Nat
    BY <1>1
  <2> QED
    BY <1>3, <2>1, SeqDef
<1>5. Len(F) = 8 + n
  <2>1. Len(F) \in Nat /\ DOMAIN F = 1 .. Len(F) /\ DOMAIN F = 1 .. 8 + n
    BY <1>3, <1>4, LenProperties
  <2> QED
    BY <1>4, <2>1
<1> QED
  BY <1>1, <1>4, <1>5 DEF Frame

LEMMA Stream ==
  ASSUME buffer \in Seq(Bytes), wire \in Seq(Bytes)
  PROVE  /\ Len(buffer) \in Nat /\ Len(wire) \in Nat
         /\ U \in Seq(Bytes) /\ Len(U) = Len(buffer) + Len(wire)
         /\ \A i \in 1 .. Len(buffer) : U[i] = buffer[i]
         /\ \A i \in 1 .. Len(wire) : U[Len(buffer) + i] = wire[i]
<1>1. Len(buffer) \in Nat /\ Len(wire) \in Nat
  BY LenProperties
<1>2. /\ U \in Seq(Bytes) /\ Len(U) = Len(buffer) + Len(wire)
      /\ \A i \in 1 .. Len(buffer) + Len(wire) :
           U[i] = IF i <= Len(buffer) THEN buffer[i] ELSE wire[i - Len(buffer)]
  BY ConcatProperties DEF U, UnderWay
<1>3. ASSUME NEW i \in 1 .. Len(wire)
      PROVE  U[Len(buffer) + i] = wire[i]
  <2>1. /\ Len(buffer) + i \in 1 .. Len(buffer) + Len(wire)
        /\ ~(Len(buffer) + i <= Len(buffer)) /\ Len(buffer) + i - Len(buffer) = i
    BY <1>1
  <2> QED
    BY <1>2, <2>1
<1> QED
  BY <1>1, <1>2, <1>3

\* What a byte can be.
LEMMA ByteTypes ==
  ASSUME NEW q \in Seq(Bytes)
  PROVE  /\ Len(q) \in Nat
         /\ \A i \in 1 .. Len(q) :
              /\ q[i].frame \in 1 .. MaxFrames /\ q[i].pos \in Nat \ {0}
              /\ q[i].val \in 0 .. 255
<1>1. \A i \in 1 .. Len(q) : q[i] \in Bytes
  BY ElementOfSeq
<1> QED
  BY <1>1, LenProperties DEF Bytes

LEMMA SizesTypes ==
  ASSUME sizes \in Seq(TextSizes)
  PROVE  /\ Len(sizes) \in Nat
         /\ \A f \in 1 .. Len(sizes) :
              /\ sizes[f] \in TextSizes /\ sizes[f] \in 1 .. TextAsLength
              /\ sizes[f] \in Nat \ {0}
<1>1. Len(sizes) \in Nat /\ \A f \in 1 .. Len(sizes) : sizes[f] \in TextSizes
  BY LenProperties, ElementOfSeq
<1>2. ASSUME NEW n \in TextSizes PROVE n \in 1 .. TextAsLength /\ n \in Nat \ {0}
  BY TextSizesAssumption
<1> QED
  BY <1>1, <1>2

-----------------------------------------------------------------------------
(* What a read does to the stream: nothing, or it takes the bytes that were  *)
(* collected from its front.                                                 *)

Front(m) == buffer \o SubSeq(wire, 1, m)

LEMMA Collected ==
  ASSUME buffer \in Seq(Bytes), wire \in Seq(Bytes), NEW m \in 1 .. Len(wire)
  PROVE  /\ Front(m) \in Seq(Bytes) /\ Len(Front(m)) = Len(buffer) + m
         /\ Len(Front(m)) \in 1 .. Len(U)
         /\ \A i \in 1 .. Len(Front(m)) : Front(m)[i] = U[i]
         /\ SubSeq(wire, m + 1, Len(wire)) \in Seq(Bytes)
         /\ Len(SubSeq(wire, m + 1, Len(wire))) = Len(U) - Len(Front(m))
         /\ \A i \in 1 .. Len(U) - Len(Front(m)) :
              SubSeq(wire, m + 1, Len(wire))[i] = U[Len(Front(m)) + i]
<1> DEFINE b == Len(buffer)
           w == Len(wire)
           read == SubSeq(wire, 1, m)
           left == SubSeq(wire, m + 1, w)
<1>1. /\ b \in Nat /\ w \in Nat /\ m \in 1 .. w
      /\ Len(U) = b + w
      /\ \A i \in 1 .. b : U[i] = buffer[i]
      /\ \A i \in 1 .. w : U[b + i] = wire[i]
  BY Stream
<1>2. \A i \in 1 .. w : wire[i] \in Bytes
  BY ElementOfSeq
<1>3. /\ read \in Seq(Bytes) /\ Len(read) = m
      /\ \A i \in 1 .. m : read[i] = wire[i]
  <2>1. /\ read \in Seq(Bytes) /\ Len(read) = IF 1 <= m THEN m - 1 + 1 ELSE 0
        /\ \A i \in 1 .. m - 1 + 1 : read[i] = wire[1 + i - 1]
    BY <1>1, <1>2, SubSeqProperties
  <2>2. m - 1 + 1 = m /\ \A i \in 1 .. m : 1 + i - 1 = i
    BY <1>1
  <2> HIDE DEF read
  <2>3. ASSUME NEW i \in 1 .. m PROVE read[i] = wire[i]
    <3>1. i \in 1 .. m - 1 + 1 /\ 1 + i - 1 = i
      BY <2>2
    <3>2. read[i] = wire[1 + i - 1]
      BY <2>1, <3>1
    <3> QED
      BY <3>1, <3>2
  <2> QED
    BY <1>1, <2>1, <2>3
<1>4. /\ left \in Seq(Bytes) /\ Len(left) = w - m
      /\ \A i \in 1 .. w - m : left[i] = wire[m + i]
  <2>1. /\ left \in Seq(Bytes) /\ Len(left) = IF m + 1 <= w THEN w - (m + 1) + 1 ELSE 0
        /\ \A i \in 1 .. w - (m + 1) + 1 : left[i] = wire[m + 1 + i - 1]
    BY <1>1, <1>2, SubSeqProperties
  <2> HIDE DEF left
  <2>2. ASSUME NEW i \in 1 .. w - m PROVE left[i] = wire[m + i]
    <3>1. i \in 1 .. w - (m + 1) + 1 /\ m + 1 + i - 1 = m + i
      BY <1>1
    <3>2. left[i] = wire[m + 1 + i - 1]
      BY <2>1, <3>1
    <3> QED
      BY <3>1, <3>2
  <2> QED
    BY <1>1, <2>1, <2>2
<1> HIDE DEF read, left
<1>5. /\ Front(m) \in Seq(Bytes) /\ Len(Front(m)) = b + m
      /\ \A i \in 1 .. b + m :
           Front(m)[i] = IF i <= b THEN buffer[i] ELSE read[i - b]
  BY <1>3, ConcatProperties DEF Front, read
<1>6. ASSUME NEW i \in 1 .. b + m
      PROVE  Front(m)[i] = U[i]
  <2>1. CASE i <= b
    BY <1>1, <1>5, <2>1
  <2>2. CASE ~(i <= b)
    <3>1. i - b \in 1 .. m /\ i - b \in 1 .. w /\ b + (i - b) = i
      BY <1>1, <2>2
    <3>2. Front(m)[i] = wire[i - b]
      BY <1>3, <1>5, <2>2, <3>1
    <3>3. U[b + (i - b)] = wire[i - b]
      BY <1>1, <3>1
    <3> QED
      BY <3>1, <3>2, <3>3
  <2> QED
    BY <2>1, <2>2
<1>7. ASSUME NEW i \in 1 .. w - m
      PROVE  left[i] = U[b + m + i]
  <2>1. m + i \in 1 .. w /\ b + (m + i) = b + m + i
    BY <1>1
  <2>2. U[b + (m + i)] = wire[m + i]
    BY <1>1, <2>1
  <2> QED
    BY <1>4, <2>1, <2>2
<1>8. Len(U) - (b + m) = w - m /\ b + m \in 1 .. Len(U)
  BY <1>1
<1> QED
  BY <1>4, <1>5, <1>6, <1>7, <1>8 DEF left

\* The stream after d bytes were taken from its front.
Moved(d) ==
  /\ d \in 0 .. Len(U) /\ Len(U') = Len(U) - d
  /\ \A i \in 1 .. Len(U') : U'[i] = U[d + i]

LEMMA ReceiveMoves ==
  ASSUME buffer \in Seq(Bytes), wire \in Seq(Bytes), NEW m \in 1 .. Len(wire), Receive(m)
  PROVE  /\ buffer' \in Seq(Bytes) /\ wire' \in Seq(Bytes) /\ U' \in Seq(Bytes)
         /\ IF BadMagic(Front(m)) \/ Complete(Front(m))
            THEN buffer' = <<>> /\ Moved(Len(Front(m)))
            ELSE buffer' = Front(m) /\ Moved(0) /\ U' = U
<1> DEFINE data == Front(m)
           left == SubSeq(wire, m + 1, Len(wire))
<1>1. /\ data \in Seq(Bytes) /\ Len(data) \in 1 .. Len(U)
      /\ \A i \in 1 .. Len(data) : data[i] = U[i]
      /\ left \in Seq(Bytes) /\ Len(left) = Len(U) - Len(data)
      /\ \A i \in 1 .. Len(U) - Len(data) : left[i] = U[Len(data) + i]
  BY Collected
<1>2. wire' = left /\ buffer' = Remaining(data)
  BY DEF Receive, Front
<1>3. /\ Len(U) \in Nat /\ U \in Seq(Bytes)
      /\ <<>> \in Seq(Bytes)
  BY Stream, LenProperties
<1> HIDE DEF data, left
<1>4. CASE BadMagic(data) \/ Complete(data)
  <2>1. buffer' = <<>>
    BY <1>2, <1>4 DEF Remaining
  <2>2. U' = left
    BY <1>1, <1>2, <2>1, ConcatEmptySeq DEF U, UnderWay
  <2>3. Len(data) \in 0 .. Len(U) /\ Len(U') = Len(U) - Len(data)
    BY <1>1, <1>3, <2>2
  <2>4. \A i \in 1 .. Len(U') : U'[i] = U[Len(data) + i]
    BY <1>1, <2>2, <2>3
  <2>5. Moved(Len(data))
    BY <2>3, <2>4 DEF Moved
  <2> QED
    BY <1>1, <1>2, <1>3, <1>4, <2>1, <2>2, <2>5 DEF data
<1>5. CASE ~(BadMagic(data) \/ Complete(data))
  <2>1. buffer' = data
    BY <1>2, <1>5 DEF Remaining
  <2>2. U' = data \o left
    BY <1>2, <2>1 DEF U, UnderWay
  <2>3. /\ U' \in Seq(Bytes) /\ Len(U') = Len(data) + Len(left)
        /\ \A i \in 1 .. Len(data) + Len(left) :
             U'[i] = IF i <= Len(data) THEN data[i] ELSE left[i - Len(data)]
    BY <1>1, <2>2, ConcatProperties
  <2>4. Len(U') = Len(U)
    BY <1>1, <1>3, <2>3
  <2>5. ASSUME NEW i \in 1 .. Len(U)
        PROVE  U'[i] = U[i]
    <3>1. i <= Len(data) => i \in 1 .. Len(data)
      BY <1>1
    <3>2. ~(i <= Len(data)) =>
            /\ i - Len(data) \in 1 .. Len(U) - Len(data)
            /\ Len(data) + (i - Len(data)) = i
      BY <1>1, <1>3
    <3> QED
      BY <1>1, <1>3, <2>3, <2>4, <3>1, <3>2
  <2>6. U' = U
    BY <1>3, <2>3, <2>4, <2>5, SeqEqual
  <2>7. \A i \in 1 .. Len(U) : 0 + i = i
    BY <1>3
  <2> QED
    BY <1>1, <1>2, <1>3, <1>5, <2>1, <2>6, <2>7 DEF Moved, data
<1> QED
  BY <1>4, <1>5

LEMMA BytesAssociative ==
  ASSUME NEW a \in Seq(Bytes), NEW b \in Seq(Bytes), NEW c \in Seq(Bytes)
  PROVE  a \o (b \o c) = (a \o b) \o c
BY ConcatAssociative

\* A frame is added at the end.
LEMMA SendAppends ==
  ASSUME buffer \in Seq(Bytes), wire \in Seq(Bytes), sizes \in Seq(TextSizes),
         NEW n \in TextSizes, SendFrame(n)
  PROVE  LET f == Len(sizes) + 1
         IN  /\ f \in 1 .. MaxFrames /\ n \in Nat \ {0}
             /\ wire' \in Seq(Bytes) /\ U' \in Seq(Bytes)
             /\ U' = U \o Frame(f, n)
             /\ Len(U') = Len(U) + HeaderSize + n
             /\ \A i \in 1 .. Len(U) : U'[i] = U[i]
             /\ \A i \in Len(U) + 1 .. Len(U') :
                  U'[i] = [frame |-> f, pos |-> i - Len(U),
                           val |-> ByteValue(i - Len(U), n)]
             /\ sizes' \in Seq(TextSizes) /\ Len(sizes') = f /\ sizes'[f] = n
             /\ \A g \in 1 .. Len(sizes) : sizes'[g] = sizes[g]
<1> DEFINE f == Len(sizes) + 1
           F == Frame(f, n)
<1>1. Len(sizes) \in Nat /\ f \in 1 .. MaxFrames
  BY SizesTypes, MaxFramesAssumption DEF SendFrame
<1>2. /\ F \in Seq(Bytes) /\ Len(F) = HeaderSize + n /\ n \in Nat \ {0}
      /\ \A j \in 1 .. HeaderSize + n :
           F[j] = [frame |-> f, pos |-> j, val |-> ByteValue(j, n)]
  BY <1>1, FrameBytes
<1>3. wire' = wire \o F /\ buffer' = buffer /\ sizes' = Append(sizes, n)
  BY DEF SendFrame
<1>4. /\ sizes' \in Seq(TextSizes) /\ Len(sizes') = f /\ sizes'[f] = n
      /\ \A g \in 1 .. Len(sizes) : sizes'[g] = sizes[g]
  BY <1>3, AppendProperties
<1> HIDE DEF f, F
<1>5. wire' \in Seq(Bytes)
  BY <1>2, <1>3, ConcatProperties
<1>6. U' = U \o F
  <2>1. U' = buffer \o (wire \o F)
    BY <1>3 DEF U, UnderWay
  <2>2. F \in Seq(Bytes)
    BY <1>2
  <2> HIDE DEF F
  <2>4. buffer \o (wire \o F) = (buffer \o wire) \o F
    BY <2>2, BytesAssociative
  <2> QED
    BY <2>1, <2>4 DEF U, UnderWay
<1>7. U \in Seq(Bytes) /\ Len(U) \in Nat
  BY Stream, LenProperties
<1>8. /\ U' \in Seq(Bytes) /\ Len(U') = Len(U) + Len(F)
      /\ \A i \in 1 .. Len(U) + Len(F) :
           U'[i] = IF i <= Len(U) THEN U[i] ELSE F[i - Len(U)]
  BY <1>2, <1>6, <1>7, ConcatProperties
<1>9. Len(U') = Len(U) + HeaderSize + n
  BY <1>2, <1>7, <1>8 DEF HeaderSize
<1>10. ASSUME NEW i \in Len(U) + 1 .. Len(U')
       PROVE  U'[i] = [frame |-> f, pos |-> i - Len(U), val |-> ByteValue(i - Len(U), n)]
  <2>1. /\ i - Len(U) \in 1 .. HeaderSize + n /\ ~(i <= Len(U))
        /\ i \in 1 .. Len(U) + Len(F)
    BY <1>2, <1>7, <1>9 DEF HeaderSize
  <2> QED
    BY <1>2, <1>8, <2>1
<1>11. \A i \in 1 .. Len(U) : U'[i] = U[i]
  BY <1>2, <1>7, <1>8 DEF HeaderSize
<1> QED
  BY <1>1, <1>2, <1>4, <1>5, <1>6, <1>8, <1>9, <1>10, <1>11 DEF f, F

-----------------------------------------------------------------------------
(* The stream stays in order. *)

LEMMA StreamSend ==
  ASSUME buffer \in Seq(Bytes), wire \in Seq(Bytes), sizes \in Seq(TextSizes),
         StreamInv, NEW n \in TextSizes, SendFrame(n)
  PROVE  StreamInv'
<1> DEFINE f == Len(sizes) + 1
           L == Len(U)
<1>1. /\ f \in 1 .. MaxFrames /\ n \in Nat \ {0}
      /\ Len(U') = L + HeaderSize + n
      /\ \A i \in 1 .. L : U'[i] = U[i]
      /\ \A i \in L + 1 .. Len(U') :
           U'[i] = [frame |-> f, pos |-> i - L, val |-> ByteValue(i - L, n)]
      /\ Len(sizes') = f /\ sizes'[f] = n
      /\ \A g \in 1 .. Len(sizes) : sizes'[g] = sizes[g]
  BY SendAppends
<1>2. L \in Nat /\ Len(sizes) \in Nat /\ HeaderSize = 8 /\ f = Len(sizes) + 1
  BY Stream, SizesTypes DEF HeaderSize
<1>3. /\ \A i \in 1 .. L : U[i].pos \in Nat
      /\ \A g \in 1 .. Len(sizes) : sizes[g] \in Nat \ {0}
  <2>1. U \in Seq(Bytes)
    BY Stream
  <2>2. \A i \in 1 .. L : U[i].pos \in Nat
    BY <2>1, ByteTypes
  <2> QED
    BY <2>2, SizesTypes
<1> HIDE DEF L, f
<1>4. Len(U') = L + 8 + n /\ Len(U') \in Nat /\ n \in Nat \ {0}
  BY <1>1, <1>2
<1>5. ASSUME NEW i \in 1 .. L
      PROVE  /\ U'[i] = U[i] /\ U[i].frame \in 1 .. Len(sizes) /\ U[i].frame < f
             /\ sizes'[U[i].frame] = sizes[U[i].frame]
             /\ sizes[U[i].frame] \in Nat \ {0}
             /\ EndOf(i)' = EndOf(i) /\ EndOf(i) <= L /\ EndOf(i) \in Int
             /\ ByteInv(i)
  <2>1. ByteInv(i)
    BY DEF StreamInv, L
  <2>2. U'[i] = U[i] /\ U[i].frame \in 1 .. Len(sizes)
    BY <1>1, <2>1 DEF ByteInv
  <2>3. U[i].frame < f
    BY <1>2, <2>2
  <2>4. sizes'[U[i].frame] = sizes[U[i].frame] /\ sizes[U[i].frame] \in Nat \ {0}
    BY <1>1, <1>3, <2>2
  <2>5. EndOf(i)' = EndOf(i)
    BY <2>2, <2>4 DEF EndOf
  <2>6. U[i].pos \in Nat
    BY <1>3
  <2>7. EndOf(i) \in Int
    <3> DEFINE s == sizes[U[i].frame]
               p == U[i].pos
    <3>1. EndOf(i) = i + 8 + s - p
      BY <1>2 DEF EndOf
    <3>2. s \in Nat \ {0} /\ p \in Nat /\ i \in 1 .. L
      BY <2>4, <2>6
    <3> HIDE DEF s, p
    <3>3. i + 8 + s - p \in Int
      BY <1>2, <3>2
    <3> QED
      BY <3>1, <3>3
  <2>8. EndOf(i) <= L
    BY <2>1 DEF ByteInv, L
  <2> QED
    BY <2>1, <2>2, <2>3, <2>4, <2>5, <2>7, <2>8
<1>6. ASSUME NEW i \in 1 .. Len(U'), i > L
      PROVE  /\ U'[i].frame = f /\ U'[i].pos = i - L
             /\ U'[i].val = ByteValue(i - L, n)
             /\ EndOf(i)' = Len(U') /\ i - L \in 1 .. 8 + n
  <2>1. i \in L + 1 .. Len(U') /\ i - L \in 1 .. 8 + n
    BY <1>2, <1>4, <1>6
  <2>2. U'[i] = [frame |-> f, pos |-> i - L, val |-> ByteValue(i - L, n)]
    BY <1>1, <2>1
  <2>3. U'[i].frame = f /\ U'[i].pos = i - L /\ U'[i].val = ByteValue(i - L, n)
    BY <2>2
  <2>4. EndOf(i)' = i + 8 + n - (i - L)
    BY <1>1, <1>2, <2>3 DEF EndOf
  <2>5. i + 8 + n - (i - L) = L + 8 + n
    BY <1>2, <1>4
  <2> QED
    BY <1>4, <2>1, <2>3, <2>4, <2>5
<1>7. ASSUME NEW i \in 1 .. Len(U')
      PROVE  ByteInv(i)'
  <2>1. CASE i \in 1 .. L
    <3>1. EndOf(i)' <= Len(U')
      BY <1>2, <1>4, <1>5, <2>1
    <3>2. U[i].frame \in 1 .. Len(sizes')
      <4>1. U[i].frame \in 1 .. Len(sizes)
        BY <1>5, <2>1
      <4>2. U[i].frame \in 1 .. f
        BY <1>2, <4>1
      <4> QED
        BY <1>1, <4>2
    <3>3. /\ U[i].pos \in 1 .. HeaderSize + sizes[U[i].frame]
          /\ U[i].val = ByteValue(U[i].pos, sizes[U[i].frame])
      BY <1>5, <2>1 DEF ByteInv
    <3>4. /\ U'[i].pos \in 1 .. HeaderSize + sizes'[U'[i].frame]
          /\ U'[i].val = ByteValue(U'[i].pos, sizes'[U'[i].frame])
      BY <1>5, <2>1, <3>3
    <3>5. U'[i].frame \in 1 .. Len(sizes')
      BY <1>5, <2>1, <3>2
    <3> QED
      BY <3>1, <3>4, <3>5 DEF ByteInv
  <2>2. CASE i > L
    <3>1. /\ U'[i].frame = f /\ U'[i].pos = i - L
          /\ U'[i].val = ByteValue(i - L, n)
          /\ EndOf(i)' = Len(U') /\ i - L \in 1 .. 8 + n
      BY <1>6, <2>2
    <3>2. f \in 1 .. Len(sizes') /\ sizes'[f] = n
      BY <1>1, <1>2
    <3>3. Len(U') <= Len(U')
      BY <1>4
    <3> QED
      BY <1>2, <3>1, <3>2, <3>3 DEF ByteInv
  <2> QED
    BY <1>2, <1>4, <2>1, <2>2
<1>8. ASSUME NEW i \in 1 .. Len(U'), NEW j \in 1 .. Len(U')
      PROVE  PairInv(i, j)'
  <2>1. CASE i \in 1 .. L /\ j \in 1 .. L
    <3>1. PairInv(i, j)
      BY <2>1 DEF StreamInv, L
    <3>2. U'[i] = U[i] /\ U'[j] = U[j] /\ EndOf(i)' = EndOf(i)
      BY <1>5, <2>1
    <3> QED
      BY <3>1, <3>2 DEF PairInv
  <2>2. CASE i \in 1 .. L /\ j > L
    <3>1. /\ U'[i] = U[i] /\ U[i].frame \in 1 .. Len(sizes) /\ U[i].frame < f
          /\ EndOf(i)' = EndOf(i) /\ EndOf(i) <= L /\ EndOf(i) \in Int
      BY <1>5, <2>2
    <3>2. U'[j].frame = f
      BY <1>6, <2>2
    <3>3. U[i].frame # f /\ U[i].frame <= f
      BY <1>2, <3>1
    <3>4. ~(j <= EndOf(i))
      BY <1>2, <1>4, <2>2, <3>1
    <3> QED
      BY <3>1, <3>2, <3>3, <3>4 DEF PairInv
  <2>3. CASE i > L /\ j \in 1 .. L
    <3>1. U'[j] = U[j] /\ U[j].frame \in 1 .. Len(sizes) /\ U[j].frame < f
      BY <1>5, <2>3
    <3>2. U'[i].frame = f /\ U'[i].pos = i - L
      BY <1>6, <2>3
    <3>3. U[j].frame # f
      BY <1>2, <3>1
    <3>4. ~(i - (i - L) < j) /\ ~(i < j)
      BY <1>2, <1>4, <2>3
    <3> QED
      BY <3>1, <3>2, <3>3, <3>4 DEF PairInv
  <2>4. CASE i > L /\ j > L
    <3>1. /\ U'[i].frame = f /\ U'[j].frame = f
          /\ U'[i].pos = i - L /\ U'[j].pos = j - L /\ EndOf(i)' = Len(U')
      BY <1>6, <2>4
    <3>2. f <= f
      BY <1>2
    <3>3. i - (i - L) < j /\ j <= Len(U') /\ (j - L) - (i - L) = j - i
      BY <1>2, <1>4, <2>4
    <3> QED
      BY <3>1, <3>2, <3>3 DEF PairInv
  <2> QED
    BY <1>2, <1>4, <2>1, <2>2, <2>3, <2>4
<1>9. Len(U') < TextAsLength
  <2>1. /\ Len(buffer) + Len(wire) + 8 + n < TextAsLength
        /\ L = Len(buffer) + Len(wire)
    BY <1>2, Stream DEF SendFrame, L
  <2> QED
    BY <1>4, <2>1
<1> QED
  BY <1>7, <1>8, <1>9 DEF StreamInv

LEMMA StreamMoves ==
  ASSUME buffer \in Seq(Bytes), wire \in Seq(Bytes), sizes \in Seq(TextSizes),
         StreamInv, sizes' = sizes, NEW d, Moved(d)
  PROVE  StreamInv'
<1> DEFINE L == Len(U)
<1>1. L \in Nat /\ Len(sizes) \in Nat /\ HeaderSize = 8 /\ d \in 0 .. L
  BY Stream, SizesTypes DEF HeaderSize, Moved
<1>2. /\ \A i \in 1 .. L : U[i].pos \in Nat
      /\ \A g \in 1 .. Len(sizes) : sizes[g] \in Nat \ {0}
  <2>1. U \in Seq(Bytes)
    BY Stream
  <2>2. \A i \in 1 .. L : U[i].pos \in Nat
    BY <2>1, ByteTypes
  <2> QED
    BY <2>2, SizesTypes
<1>3. Len(U') = L - d /\ Len(U') \in Nat /\ \A i \in 1 .. Len(U') : U'[i] = U[d + i]
  BY <1>1 DEF Moved
<1> HIDE DEF L
<1>4. ASSUME NEW i \in 1 .. Len(U')
      PROVE  /\ d + i \in 1 .. L /\ U'[i] = U[d + i] /\ ByteInv(d + i)
             /\ U[d + i].pos \in Nat /\ EndOf(d + i) \in Int
             /\ EndOf(i)' = EndOf(d + i) - d
  <2>1. d + i \in 1 .. L
    BY <1>1, <1>3
  <2>2. U'[i] = U[d + i]
    BY <1>3
  <2>3. ByteInv(d + i) /\ U[d + i].pos \in Nat
    BY <1>2, <2>1 DEF StreamInv, L
  <2>4. sizes[U[d + i].frame] \in Nat \ {0}
    BY <1>2, <2>3 DEF ByteInv
  <2>5. EndOf(d + i) = d + i + 8 + sizes[U[d + i].frame] - U[d + i].pos
    BY <1>1 DEF EndOf
  <2>6. EndOf(i)' = i + 8 + sizes[U[d + i].frame] - U[d + i].pos
    BY <1>1, <2>2 DEF EndOf
  <2>7. EndOf(d + i) \in Int /\ EndOf(i)' = EndOf(d + i) - d
    <3> DEFINE s == sizes[U[d + i].frame]
               p == U[d + i].pos
    <3>1. EndOf(d + i) = d + i + 8 + s - p /\ EndOf(i)' = i + 8 + s - p
      BY <2>5, <2>6
    <3>2. s \in Nat \ {0} /\ p \in Nat
      BY <2>3, <2>4
    <3> HIDE DEF s, p
    <3>3. d + i + 8 + s - p \in Int
      BY <1>1, <1>3, <3>2
    <3>4. EndOf(d + i) \in Int
      BY <3>1, <3>3
    <3>5. EndOf(i)' = EndOf(d + i) - d
      <4> DEFINE e == EndOf(d + i)
                 x == EndOf(i)'
      <4>1. e = d + i + 8 + s - p /\ x = i + 8 + s - p
        BY <3>1
      <4> HIDE DEF e, x
      <4>2. x = e - d
        BY <1>1, <1>3, <3>2, <4>1
      <4> QED
        BY <4>2 DEF e, x
    <3> QED
      BY <3>4, <3>5
  <2> QED
    BY <2>1, <2>2, <2>3, <2>7
<1>5. ASSUME NEW i \in 1 .. Len(U')
      PROVE  ByteInv(i)'
  <2>1. /\ U'[i] = U[d + i] /\ ByteInv(d + i)
        /\ EndOf(d + i) \in Int /\ EndOf(i)' = EndOf(d + i) - d
    BY <1>4
  <2>2. EndOf(d + i) <= L
    BY <2>1 DEF ByteInv, L
  <2>3. EndOf(i)' <= Len(U')
    BY <1>1, <1>3, <2>1, <2>2
  <2> QED
    BY <2>1, <2>3 DEF ByteInv
<1>6. ASSUME NEW i \in 1 .. Len(U'), NEW j \in 1 .. Len(U')
      PROVE  PairInv(i, j)'
  <2>1. PairInv(d + i, d + j)
    BY <1>4 DEF StreamInv, L
  <2>2. /\ U'[i] = U[d + i] /\ U'[j] = U[d + j]
        /\ U[d + i].pos \in Nat /\ EndOf(d + i) \in Int
        /\ EndOf(i)' = EndOf(d + i) - d
    BY <1>4
  <2>3. /\ ((d + i) - U[d + i].pos < d + j) <=> (i - U[d + i].pos < j)
        /\ (d + j) - (d + i) = j - i
        /\ (i < j) <=> (d + i < d + j)
    <3> DEFINE p == U[d + i].pos
    <3>1. p \in Int /\ i \in Int /\ j \in Int /\ d \in Int
      BY <1>1, <1>3, <2>2
    <3> HIDE DEF p
    <3>2. /\ ((d + i) - p < d + j) <=> (i - p < j)
          /\ (d + j) - (d + i) = j - i
          /\ (i < j) <=> (d + i < d + j)
      BY <3>1
    <3> QED
      BY <3>2 DEF p
  <2>4. (d + j <= EndOf(d + i)) <=> (j <= EndOf(i)')
    BY <1>1, <1>3, <2>2
  <2> QED
    BY <2>1, <2>2, <2>3, <2>4 DEF PairInv
<1>7. Len(U') < TextAsLength
  <2>1. L < TextAsLength /\ TextAsLength \in Int
    BY DEF StreamInv, L, TextAsLength, TextByte
  <2> QED
    BY <1>1, <1>3, <2>1
<1> QED
  BY <1>5, <1>6, <1>7 DEF StreamInv

-----------------------------------------------------------------------------
(* What appendData can take for a header. *)

Typed ==
  /\ buffer \in Seq(Bytes) /\ wire \in Seq(Bytes)
  /\ sizes \in Seq(TextSizes) /\ Len(sizes) <= MaxFrames

\* q is bytes from the front of the stream.
FrontBytes(q) ==
  /\ q \in Seq(Bytes) /\ Len(q) \in 1 .. Len(U)
  /\ \A i \in 1 .. Len(q) : q[i] = U[i]

LEMMA ByteValues ==
  ASSUME NEW n \in 1 .. TextAsLength, NEW j \in 1 .. 8 + n
  PROVE  /\ j \in {1, 2, 3} => ByteValue(j, n) = 0
         /\ j = 4 => ByteValue(j, n) = 33
         /\ j > 8 => ByteValue(j, n) = 123
BY DEF ByteValue, TextByte, kRSessionMagicNumber, HeaderSize

LEMMA HeaderBytes ==
  ASSUME NEW n \in 1 .. TextAsLength
  PROVE  ((ByteValue(5, n) * 256 + ByteValue(6, n)) * 256 + ByteValue(7, n)) * 256
           + ByteValue(8, n) = n
<1>1. /\ ByteValue(5, n) = ((n \div 256) \div 256) \div 256
      /\ ByteValue(6, n) = ((n \div 256) \div 256) % 256
      /\ ByteValue(7, n) = (n \div 256) % 256 /\ ByteValue(8, n) = n % 256
  BY LengthBytes DEF ByteValue, HeaderSize, TextByte, kRSessionMagicNumber
<1> QED
  BY <1>1, LengthBytes

\* The stream begins with a whole frame.
WholeFirst(f, n) ==
  /\ f \in 1 .. Len(sizes) /\ n = sizes[f] /\ n \in Nat \ {0}
  /\ HeaderSize + n <= Len(U)
  /\ \A i \in 1 .. HeaderSize + n :
       U[i] = [frame |-> f, pos |-> i, val |-> ByteValue(i, n)]

\* No byte of the first frame under way was taken.
StartsFrame == Len(U) > 0 /\ U[1].pos = 1

LEMMA FirstFrame ==
  ASSUME Typed, StreamInv, StartsFrame
  PROVE  WholeFirst(U[1].frame, sizes[U[1].frame])
<1> DEFINE f == U[1].frame
           n == sizes[f]
<1>1. /\ Len(U) \in Nat /\ U \in Seq(Bytes) /\ 1 \in 1 .. Len(U) /\ HeaderSize = 8
      /\ U[1].pos = 1
  BY Stream DEF HeaderSize, Typed, StartsFrame
<1>2. ByteInv(1)
  BY <1>1 DEF StreamInv
<1>3. f \in 1 .. Len(sizes) /\ n \in Nat \ {0}
  BY <1>2, SizesTypes DEF ByteInv, Typed
<1>4. EndOf(1) = 1 + 8 + n - 1 /\ EndOf(1) <= Len(U)
  BY <1>1, <1>2 DEF EndOf, ByteInv
<1> HIDE DEF n
<1>5. EndOf(1) = 8 + n /\ 8 + n <= Len(U)
  <2>1. 1 + 8 + n - 1 = 8 + n
    BY <1>3
  <2> QED
    BY <1>4, <2>1
<1>6. ASSUME NEW i \in 1 .. 8 + n
      PROVE  U[i] = [frame |-> f, pos |-> i, val |-> ByteValue(i, n)]
  <2>1. i \in 1 .. Len(U)
    BY <1>1, <1>3, <1>5
  <2>2. PairInv(1, i) /\ ByteInv(i)
    BY <1>1, <2>1 DEF StreamInv
  <2>3. 1 - 1 < i /\ i <= 8 + n
    BY <1>3
  <2>4. U[i] \in Bytes
    BY <1>1, <2>1, ElementOfSeq
  <2>5. U[i].pos \in Nat
    BY <1>1, <2>4 DEF Bytes
  <2>6. U[i].frame = f /\ U[i].pos - 1 = i - 1
    BY <1>1, <1>5, <2>2, <2>3 DEF PairInv
  <2>7. U[i].pos = i
    <3> DEFINE p == U[i].pos
    <3>1. p \in Nat
      BY <2>5
    <3>2. p - 1 = i - 1
      BY <2>6
    <3> HIDE DEF f, p
    <3>3. p = i
      BY <1>3, <3>1, <3>2
    <3> QED
      BY <3>3 DEF p
  <2>8. U[i].val = ByteValue(i, n)
    BY <2>2, <2>6, <2>7 DEF ByteInv, n
  <2> QED
    BY <2>4, <2>6, <2>7, <2>8 DEF Bytes
<1> QED
  BY <1>1, <1>3, <1>5, <1>6 DEF WholeFirst, n

\* Bytes from the front of the stream that begin with the magic number begin
\* with a whole frame, or cannot be complete.
LEMMA Headers ==
  ASSUME Typed, StreamInv, NEW q, FrontBytes(q), ~TooShort(q), ~BadMagic(q)
  PROVE  \/ /\ WholeFirst(U[1].frame, sizes[U[1].frame])
            /\ Word(q, 5) = sizes[U[1].frame]
         \/ ~Complete(q)
<1>1. /\ Len(U) \in Nat /\ U \in Seq(Bytes) /\ HeaderSize = 8 /\ Len(sizes) \in Nat
  BY Stream, SizesTypes DEF HeaderSize, Typed
<1>2. /\ Len(q) > 8 /\ Word(q, 1) = 33 /\ Len(q) \in 1 .. Len(U)
      /\ \A i \in 1 .. Len(q) : q[i] = U[i]
  <2>1. Len(q) \in 1 .. Len(U) /\ \A i \in 1 .. Len(q) : q[i] = U[i]
    BY DEF FrontBytes
  <2>2. Word(q, 1) = 33 /\ ~(Len(q) <= 8)
    BY <1>1 DEF TooShort, BadMagic, kRSessionMagicNumber
  <2> QED
    BY <1>1, <2>1, <2>2
<1>3. /\ \A i \in 1 .. 8 : i \in 1 .. Len(q) /\ i \in 1 .. Len(U)
      /\ \A i \in 1 .. 8 : q[i] = U[i]
  <2> DEFINE k == Len(q)
             L == Len(U)
  <2>1. L \in Nat /\ k \in 1 .. L /\ k > 8
    BY <1>1, <1>2
  <2> HIDE DEF k, L
  <2>2. \A i \in 1 .. 8 : i \in 1 .. k /\ i \in 1 .. L
    BY <2>1
  <2> QED
    BY <1>2, <2>2 DEF k, L
<1>4. \A i \in 1 .. 8 : U[i].val \in 0 .. 255 /\ U[i].pos \in Nat
  BY <1>1, <1>3, ByteTypes
<1>5. \A i \in 1 .. 8 : ByteInv(i)
  BY <1>3 DEF StreamInv
<1>6. U[1].val = 0 /\ U[2].val = 0 /\ U[3].val = 0 /\ U[4].val = 33
  <2>1. q[1] = U[1] /\ q[1 + 1] = U[2] /\ q[1 + 2] = U[3] /\ q[1 + 3] = U[4]
    BY <1>3
  <2>2. /\ U[1].val \in 0 .. 255 /\ U[2].val \in 0 .. 255
        /\ U[3].val \in 0 .. 255 /\ U[4].val \in 0 .. 255
    BY <1>4
  <2>3. ((U[1].val * 256 + U[2].val) * 256 + U[3].val) * 256 + U[4].val = 33
    BY <1>2, <2>1 DEF Word
  <2> DEFINE a == U[1].val  b == U[2].val  c == U[3].val  d == U[4].val
  <2>4. /\ a \in 0 .. 255 /\ b \in 0 .. 255 /\ c \in 0 .. 255 /\ d \in 0 .. 255
        /\ ((a * 256 + b) * 256 + c) * 256 + d = 33
    BY <2>2, <2>3
  <2> HIDE DEF a, b, c, d
  <2>5. a = 0 /\ b = 0 /\ c = 0 /\ d = 33
    BY <2>4
  <2> QED
    BY <2>5 DEF a, b, c, d
<1>7. Word(q, 5) = ((U[5].val * 256 + U[6].val) * 256 + U[7].val) * 256 + U[8].val
  <2>1. q[5] = U[5] /\ q[5 + 1] = U[6] /\ q[5 + 2] = U[7] /\ q[5 + 3] = U[8]
    BY <1>3
  <2> QED
    BY <2>1 DEF Word
<1> DEFINE f == U[4].frame
           n == sizes[f]
<1>8. f \in 1 .. Len(sizes) /\ n \in 1 .. TextAsLength /\ n \in Nat \ {0}
      /\ U[4].pos \in 1 .. 8 + n /\ ByteValue(U[4].pos, n) = 33
  <2>1. ByteInv(4)
    BY <1>5
  <2>2. f \in 1 .. Len(sizes) /\ U[4].pos \in 1 .. 8 + n /\ ByteValue(U[4].pos, n) = 33
    BY <1>1, <1>6, <2>1 DEF ByteInv
  <2> QED
    BY <2>2, SizesTypes DEF Typed
<1> DEFINE p == U[4].pos
<1>9. ASSUME NEW i \in 1 .. 3, 4 - p < i
       PROVE  ByteValue(i + p - 4, n) = 0
  <2>1. PairInv(4, i) /\ ByteInv(i) /\ i \in 1 .. 8
    <3>1. i \in 1 .. 8 /\ 4 \in 1 .. 8
      OBVIOUS
    <3>2. i \in 1 .. Len(U) /\ 4 \in 1 .. Len(U)
      BY <1>3, <3>1
    <3> QED
      BY <1>5, <3>1, <3>2 DEF StreamInv
  <2>2. EndOf(4) = 4 + 8 + n - p
    BY <1>1 DEF EndOf
  <2>3. U[i].pos \in Nat
    BY <1>4, <2>1
  <2> HIDE DEF f, n, p
  <2>4. i <= EndOf(4)
    BY <1>8, <2>2 DEF p
  <2>5. U[i].frame = f /\ U[i].pos - p = i - 4
    BY <1>9, <2>1, <2>4 DEF PairInv, f, p
  <2>6. U[i].pos = i + p - 4
    <3> DEFINE x == U[i].pos
    <3>1. x \in Nat /\ x - p = i - 4 /\ p \in Nat
      BY <1>8, <2>3, <2>5 DEF p
    <3> HIDE DEF x
    <3>2. x = i + p - 4
      BY <3>1
    <3> QED
      BY <3>2 DEF x
  <2>7. U[i].val = 0
    <3>1. i = 1 \/ i = 2 \/ i = 3
      OBVIOUS
    <3> QED
      BY <1>6, <3>1
  <2> QED
    BY <2>1, <2>5, <2>6, <2>7 DEF ByteInv, n
<1>10. p = 4 \/ (p = 8 /\ n = 33)
  <2> HIDE DEF f, n, p
  <2>1. p \in 1 .. 8 + n /\ ByteValue(p, n) = 33 /\ n \in 1 .. TextAsLength /\ n \in Nat \ {0}
    BY <1>8 DEF p
  <2>2. p \notin {1, 2, 3} /\ ~(p > 8)
    BY <2>1, ByteValues
  <2>3. p \in 4 .. 8
    BY <2>1, <2>2
  <2>4. ByteValue(4, n) = 33
    <3>1. 4 \in 1 .. 8 + n
      BY <2>1
    <3> QED
      BY <2>1, <3>1, ByteValues
  <2>5. p \notin {5, 6, 7}
    <3>1. p = 5 => 3 + p - 4 = 4 /\ 4 - p < 3
      OBVIOUS
    <3>2. p = 6 => 2 + p - 4 = 4 /\ 4 - p < 2
      OBVIOUS
    <3>3. p = 7 => 1 + p - 4 = 4 /\ 4 - p < 1
      OBVIOUS
    <3>4. p # 5
      BY <1>9, <2>4, <3>1
    <3>5. p # 6
      BY <1>9, <2>4, <3>2
    <3>6. p # 7
      BY <1>9, <2>4, <3>3
    <3> QED
      BY <3>4, <3>5, <3>6
  <2>6. ASSUME p = 8 PROVE n = 33
    <3>1. 4 - 8 < 1 /\ 1 + 8 - 4 = 5 /\ 2 + 8 - 4 = 6 /\ 3 + 8 - 4 = 7
      OBVIOUS
    <3>2. ByteValue(5, n) = 0 /\ ByteValue(6, n) = 0 /\ ByteValue(7, n) = 0
      <4>1. 4 - p < 1 /\ 1 + p - 4 = 5 /\ 4 - p < 2 /\ 2 + p - 4 = 6
            /\ 4 - p < 3 /\ 3 + p - 4 = 7
        BY <2>6
      <4>2. ByteValue(1 + p - 4, n) = 0 /\ ByteValue(2 + p - 4, n) = 0
            /\ ByteValue(3 + p - 4, n) = 0
        BY <1>9, <4>1
      <4> QED
        BY <4>1, <4>2
    <3>3. ByteValue(8, n) = 33
      BY <2>1, <2>6
    <3>4. ((0 * 256 + 0) * 256 + 0) * 256 + 33 = n
      BY <2>1, <3>2, <3>3, HeaderBytes
    <3> QED
      BY <3>4
  <2> QED
    BY <2>3, <2>5, <2>6
<1> HIDE DEF p
<1>11. CASE p = 4
  <2>1. PairInv(4, 1)
    <3>1. 4 \in 1 .. Len(U) /\ 1 \in 1 .. Len(U)
      BY <1>3
    <3> QED
      BY <3>1 DEF StreamInv
  <2>2. EndOf(4) = 4 + 8 + n - 4
    BY <1>1, <1>11 DEF EndOf, p
  <2>3. 1 <= EndOf(4) /\ 4 - 4 < 1
    <3> HIDE DEF n
    <3> QED
      BY <1>8, <2>2
  <2>4. U[1].frame = f /\ U[1].pos - 4 = 1 - 4
    BY <1>11, <2>1, <2>3 DEF PairInv, p
  <2>5. U[1].pos = 1
    BY <1>4, <2>4
  <2>6. WholeFirst(f, n)
    BY <1>1, <1>3, <2>4, <2>5, FirstFrame DEF StartsFrame
  <2>7. /\ U[5].val = ByteValue(5, n) /\ U[6].val = ByteValue(6, n)
        /\ U[7].val = ByteValue(7, n) /\ U[8].val = ByteValue(8, n)
    <3>1. \A i \in 5 .. 8 : i \in 1 .. 8 + n
      <4> HIDE DEF n
      <4> QED
        BY <1>8
    <3>2. ASSUME NEW i \in 5 .. 8 PROVE U[i].val = ByteValue(i, n)
      <4>1. i \in 1 .. HeaderSize + n
        BY <1>1, <3>1
      <4> HIDE DEF f, n
      <4>2. U[i] = [frame |-> f, pos |-> i, val |-> ByteValue(i, n)]
        BY <2>6, <4>1 DEF WholeFirst
      <4> QED
        BY <4>2
    <3> QED
      BY <3>2
  <2>9. Word(q, 5) = n
    <3> HIDE DEF n
    <3> QED
      BY <1>7, <1>8, <2>7, HeaderBytes
  <2> QED
    BY <2>4, <2>6, <2>9
<1>12. CASE p = 8 /\ n = 33
  <2>1. EndOf(4) = 4 + 8 + 33 - 8
    BY <1>1, <1>12 DEF EndOf, p
  <2>2. ASSUME NEW i \in 5 .. 8
        PROVE  U[i].val = 123
    <3>1. PairInv(4, i) /\ i \in 1 .. 8 /\ ByteInv(i)
      BY <1>3, <1>5 DEF StreamInv
    <3>2. 4 - 8 < i /\ i <= EndOf(4)
      BY <2>1
    <3>3. U[i].pos \in Nat
      BY <1>4, <3>1
    <3>4. U[i].frame = f /\ U[i].pos - 8 = i - 4
      BY <1>12, <3>1, <3>2 DEF PairInv, p
    <3>5. U[i].pos = i + 4 /\ i + 4 \in 1 .. 8 + 33 /\ i + 4 > 8
      <4> DEFINE x == U[i].pos
      <4>1. x \in Nat /\ x - 8 = i - 4
        BY <3>3, <3>4
      <4> HIDE DEF x
      <4>2. x = i + 4 /\ i + 4 \in 1 .. 8 + 33 /\ i + 4 > 8
        BY <4>1
      <4> QED
        BY <4>2 DEF x
    <3>6. U[i].val = ByteValue(i + 4, 33)
      BY <1>12, <3>1, <3>4, <3>5 DEF ByteInv
    <3> QED
      BY <3>5, <3>6 DEF ByteValue, TextByte, HeaderSize
  <2>3. Word(q, 5) = TextAsLength
    <3>1. U[5].val = 123 /\ U[6].val = 123 /\ U[7].val = 123 /\ U[8].val = 123
      BY <2>2
    <3> QED
      BY <1>7, <3>1 DEF TextAsLength, TextByte
  <2>4. Len(U) < TextAsLength
    BY DEF StreamInv
  <2>5. ~(TextAsLength + 8 <= Len(q))
    <3>1. TextAsLength \in Int
      BY DEF TextAsLength, TextByte
    <3> QED
      BY <1>1, <1>2, <2>4, <3>1
  <2>6. ~Complete(q)
    BY <1>1, <2>3, <2>5 DEF Complete
  <2> QED
    BY <2>6
<1> QED
  BY <1>10, <1>11, <1>12

\* A complete front of the stream is a whole frame, and what is handed on is
\* its text.
LEMMA TextOfFrame ==
  ASSUME Typed, StreamInv, NEW q, FrontBytes(q), Complete(q)
  PROVE  LET f == U[1].frame
             n == sizes[U[1].frame]
         IN  /\ WholeFirst(f, n) /\ f \in 1 .. Len(sizes) /\ HeaderSize + n <= Len(q)
             /\ Text(q) \in Seq(Bytes) /\ Text(q)[1].frame = f
             /\ Text(q) = SubSeq(Frame(f, n), HeaderSize + 1, HeaderSize + n)
<1> DEFINE f == U[1].frame
           n == sizes[f]
           F == Frame(f, n)
           frameText == SubSeq(F, 9, 8 + n)
           text == SubSeq(q, 9, 8 + n)
<1>1. WholeFirst(f, n) /\ Word(q, 5) = n
  BY Headers DEF Complete
<1>2. /\ q \in Seq(Bytes) /\ Len(q) \in 1 .. Len(U) /\ Len(U) \in Nat
      /\ \A i \in 1 .. Len(q) : q[i] = U[i]
  BY Stream DEF FrontBytes, Typed
<1>3. HeaderSize = 8 /\ HeaderSize + 1 = 9
  BY DEF HeaderSize
<1>4. f \in 1 .. Len(sizes) /\ n \in Nat \ {0}
  BY <1>1 DEF WholeFirst
<1>5. f \in 1 .. MaxFrames /\ n \in TextSizes
  <2>1. /\ Len(sizes) \in Nat /\ Len(sizes) <= MaxFrames /\ MaxFrames \in Nat
        /\ n \in TextSizes
    BY <1>4, SizesTypes, MaxFramesAssumption DEF Typed
  <2> HIDE DEF f, n
  <2> QED
    BY <1>4, <2>1
<1>6. /\ F \in Seq(Bytes) /\ Len(F) = 8 + n
      /\ \A j \in 1 .. 8 + n : F[j] = [frame |-> f, pos |-> j, val |-> ByteValue(j, n)]
  BY <1>3, <1>5, FrameBytes
<1>7. \A j \in 1 .. 8 + n : U[j] = [frame |-> f, pos |-> j, val |-> ByteValue(j, n)]
  BY <1>1, <1>3 DEF WholeFirst
<1> HIDE DEF f, n, F
<1>8. 8 + n <= Len(q)
  <2>1. n + HeaderSize <= Len(q)
    BY <1>1 DEF Complete
  <2> QED
    BY <1>2, <1>3, <1>4, <2>1
<1>9. \A i \in 1 .. n : 9 + i - 1 \in 1 .. 8 + n /\ 9 + i - 1 \in 1 .. Len(q)
  BY <1>2, <1>4, <1>8
<1>10. 8 + n - 9 + 1 = n /\ 9 <= 8 + n /\ 9 \in 1 .. Len(q) + 1 /\ 8 + n \in 9 - 1 .. Len(q)
       /\ 9 \in 1 .. Len(F) + 1 /\ 8 + n \in 9 - 1 .. Len(F)
  BY <1>2, <1>4, <1>6, <1>8
<1>11. \A i \in 9 .. 8 + n : q[i] \in Bytes /\ F[i] \in Bytes
  <2>1. \A i \in 9 .. 8 + n : i \in 1 .. Len(q) /\ i \in 1 .. Len(F)
    BY <1>2, <1>4, <1>6, <1>8
  <2> QED
    BY <1>2, <1>6, <2>1, ElementOfSeq
<1>12. /\ text \in Seq(Bytes) /\ Len(text) = n
       /\ \A i \in 1 .. n : text[i] = q[9 + i - 1]
  BY <1>2, <1>4, <1>10, <1>11, SubSeqProperties
<1>13. /\ frameText \in Seq(Bytes) /\ Len(frameText) = n
       /\ \A i \in 1 .. n : frameText[i] = F[9 + i - 1]
  BY <1>4, <1>6, <1>10, <1>11, SubSeqProperties
<1> HIDE DEF text, frameText
<1>14. \A i \in 1 .. n : text[i] = frameText[i]
  BY <1>2, <1>6, <1>7, <1>9, <1>12, <1>13
<1>15. text = frameText
  BY <1>12, <1>13, <1>14, SeqEqual
<1>16. text[1].frame = f
  <2>1. 1 \in 1 .. n /\ 9 + 1 - 1 \in 1 .. 8 + n
    BY <1>4
  <2>2. text[1] = F[9 + 1 - 1]
    BY <1>13, <1>15, <2>1
  <2>3. F[9 + 1 - 1] = [frame |-> f, pos |-> 9 + 1 - 1, val |-> ByteValue(9 + 1 - 1, n)]
    BY <1>6, <2>1
  <2> QED
    BY <2>2, <2>3
<1>17. Text(q) = text
  BY <1>1, <1>3 DEF Text, text
<1> QED
  BY <1>1, <1>3, <1>4, <1>8, <1>12, <1>15, <1>16, <1>17 DEF frameText, F, n, f

-----------------------------------------------------------------------------
(* Steps of the reader and the writer. *)

InputInv == TypeOK /\ Typed /\ StreamInv /\ AlignedInv /\ MessagesInv

\* While commands do not overlap, the front of the stream is the front of a
\* frame, and complete with the last byte of it.
LEMMA AlignedFront ==
  ASSUME Typed, StreamInv, AlignedInv, ~overlapped, NEW q, FrontBytes(q)
  PROVE  ~BadMagic(q) /\ (Complete(q) => Len(q) = Len(U))
<1> DEFINE f == Len(sizes)
           n == sizes[f]
<1>1. /\ q \in Seq(Bytes) /\ Len(q) \in 1 .. Len(U) /\ Len(U) \in Nat
      /\ \A i \in 1 .. Len(q) : q[i] = U[i]
  BY Stream DEF FrontBytes, Typed
<1>2. HeaderSize = 8
  BY DEF HeaderSize
<1>3. U # <<>>
  <2>1. Len(<<>>) = 0
    OBVIOUS
  <2> QED
    BY <1>1, <2>1
<1>4. U = Frame(f, n)
  BY <1>3 DEF AlignedInv
<1>5. f \in 1 .. Len(sizes) /\ f \in 1 .. MaxFrames /\ n \in TextSizes
  <2>1. 1 \in 1 .. Len(U)
    BY <1>1
  <2>2. Len(sizes) \in Nat /\ U[1].frame \in 1 .. Len(sizes)
    BY <2>1, SizesTypes DEF StreamInv, ByteInv, Typed
  <2>3. MaxFrames \in Nat /\ Len(sizes) <= MaxFrames
    BY MaxFramesAssumption DEF Typed
  <2>4. Len(sizes) \in 1 .. Len(sizes) /\ Len(sizes) \in 1 .. MaxFrames
    BY <2>2, <2>3
  <2> QED
    BY <2>4, SizesTypes DEF Typed
<1>6. /\ Len(U) = 8 + n /\ n \in Nat \ {0} /\ n \in 1 .. TextAsLength
      /\ \A j \in 1 .. 8 + n : U[j].val = ByteValue(j, n)
  <2> HIDE DEF f, n
  <2>1. /\ Len(Frame(f, n)) = 8 + n /\ n \in Nat \ {0}
        /\ \A j \in 1 .. 8 + n :
             Frame(f, n)[j] = [frame |-> f, pos |-> j, val |-> ByteValue(j, n)]
    BY <1>2, <1>5, FrameBytes
  <2>2. \A j \in 1 .. 8 + n : Frame(f, n)[j].val = ByteValue(j, n)
    BY <2>1
  <2> QED
    BY <1>4, <1>5, <2>1, <2>2, TextSizesAssumption
<1> HIDE DEF f, n
<1>7. CASE TooShort(q)
  BY <1>7 DEF BadMagic, Complete
<1>8. CASE ~TooShort(q)
  <2>1. Len(q) > 8
    BY <1>1, <1>2, <1>8 DEF TooShort
  <2>2. \A i \in 1 .. 8 : i \in 1 .. Len(q) /\ i \in 1 .. 8 + n
    BY <1>1, <1>6, <2>1
  <2>3. \A i \in 1 .. 8 : q[i].val = ByteValue(i, n)
    BY <1>1, <1>6, <2>2
  <2>4. /\ q[1].val = 0 /\ q[2].val = 0 /\ q[3].val = 0 /\ q[4].val = 33
        /\ q[5].val = ByteValue(5, n) /\ q[6].val = ByteValue(6, n)
        /\ q[7].val = ByteValue(7, n) /\ q[8].val = ByteValue(8, n)
    <3>1. /\ ByteValue(1, n) = 0 /\ ByteValue(2, n) = 0 /\ ByteValue(3, n) = 0
          /\ ByteValue(4, n) = 33
      BY DEF ByteValue, kRSessionMagicNumber, HeaderSize
    <3> QED
      BY <2>3, <3>1
  <2>5. Word(q, 1) = 33
    BY <2>4 DEF Word
  <2>6. Word(q, 5) = n
    BY <1>6, <2>4, HeaderBytes DEF Word
  <2>7. ~BadMagic(q)
    BY <2>5 DEF BadMagic, kRSessionMagicNumber
  <2>8. Complete(q) => Len(q) = Len(U)
    <3>1. Complete(q) => n + 8 <= Len(q)
      BY <1>2, <2>6 DEF Complete
    <3> DEFINE m == Len(q)
               L == Len(U)
    <3>2. L \in Nat /\ m \in 1 .. L /\ L = 8 + n /\ n \in Nat \ {0}
      BY <1>1, <1>6
    <3> HIDE DEF m, L
    <3>3. n + 8 <= m => m = L
      BY <3>2
    <3> QED
      BY <3>1, <3>3 DEF m, L
  <2> QED
    BY <2>7, <2>8
<1> QED
  BY <1>7, <1>8

LEMMA EmptyBuffer == ~BadMagic(<<>>) /\ ~Complete(<<>>)
<1>1. Len(<<>>) = 0 /\ HeaderSize = 8
  BY DEF HeaderSize
<1>2. TooShort(<<>>)
  BY <1>1 DEF TooShort
<1> QED
  BY <1>2 DEF BadMagic, Complete

LEMMA InitKeeps == Init => InputInv
<1> SUFFICES ASSUME Init PROVE InputInv
  OBVIOUS
<1>1. U = <<>>
  BY ConcatEmptySeq, EmptySeq DEF Init, U, UnderWay
<1>2. Len(U) = 0 /\ Len(sizes) = 0 /\ Len(messages) = 0
  BY <1>1 DEF Init
<1>3. TypeOK
  BY EmptySeq, EmptyBuffer DEF TypeOK, Init
<1>4. Typed
  BY <1>2, EmptySeq, MaxFramesAssumption DEF Typed, Init
<1>5. StreamInv
  <2>1. 0 < TextAsLength
    BY DEF TextAsLength, TextByte
  <2> QED
    BY <1>2, <2>1 DEF StreamInv
<1>6. AlignedInv
  BY <1>1, <1>2 DEF AlignedInv
<1>7. MessagesInv
  BY <1>2 DEF MessagesInv, MessagesWhole
<1> QED
  BY <1>3, <1>4, <1>5, <1>6, <1>7 DEF InputInv

LEMMA SendKeeps ==
  ASSUME InputInv, NEW n \in TextSizes, SendFrame(n)
  PROVE  InputInv'
<1> DEFINE f == Len(sizes) + 1
<1>1. TypeOK /\ Typed /\ StreamInv /\ AlignedInv /\ MessagesInv
  BY DEF InputInv
<1>2. buffer \in Seq(Bytes) /\ wire \in Seq(Bytes) /\ sizes \in Seq(TextSizes)
  BY <1>1 DEF Typed
<1>3. /\ f \in 1 .. MaxFrames
      /\ wire' \in Seq(Bytes) /\ U' = U \o Frame(f, n)
      /\ sizes' \in Seq(TextSizes) /\ Len(sizes') = f /\ sizes'[f] = n
      /\ \A g \in 1 .. Len(sizes) : sizes'[g] = sizes[g]
  BY <1>2, SendAppends
<1>4. buffer' = buffer /\ messages' = messages
  BY DEF SendFrame
<1>5. Len(sizes) \in Nat /\ MaxFrames \in Nat
  BY <1>2, SizesTypes, MaxFramesAssumption
<1>6. Typed'
  <2>1. Len(sizes') <= MaxFrames
    BY <1>3, <1>5
  <2> QED
    BY <1>2, <1>3, <1>4, <2>1 DEF Typed
<1>7. TypeOK'
  <2>1. overlapped' \in BOOLEAN
    BY DEF SendFrame
  <2> QED
    BY <1>1, <1>3, <1>4, <2>1 DEF TypeOK
<1>8. StreamInv'
  BY <1>1, <1>2, StreamSend
<1>9. MessagesInv'
  <2>1. ASSUME NEW k \in 1 .. Len(messages')
        PROVE  LET g == messages'[k][1].frame
               IN  /\ g \in 1 .. Len(sizes')
                   /\ messages'[k] = SubSeq(Frame(g, sizes'[g]), HeaderSize + 1,
                                            HeaderSize + sizes'[g])
    <3> DEFINE g == messages[k][1].frame
    <3>1. k \in 1 .. Len(messages)
      BY <1>4
    <3>2. /\ g \in 1 .. Len(sizes)
          /\ messages[k] = SubSeq(Frame(g, sizes[g]), HeaderSize + 1, HeaderSize + sizes[g])
      BY <1>1, <3>1 DEF MessagesInv, MessagesWhole
    <3>3. sizes'[g] = sizes[g]
      BY <1>3, <3>2
    <3>4. g \in 1 .. f
      BY <1>5, <3>2
    <3> QED
      BY <1>3, <1>4, <3>2, <3>3, <3>4
  <2> QED
    BY <2>1 DEF MessagesInv, MessagesWhole
<1>10. AlignedInv'
  <2> SUFFICES ASSUME ~overlapped'
               PROVE  /\ U' # <<>> /\ U' = Frame(Len(sizes'), sizes'[Len(sizes')])
                      /\ Len(messages') = Len(sizes') - 1
    BY DEF AlignedInv
  <2>1. ~overlapped /\ wire \o buffer = <<>>
    BY DEF SendFrame
  <2>2. Len(wire) = 0 /\ Len(buffer) = 0
    <3>1. Len(wire \o buffer) = Len(wire) + Len(buffer)
      BY <1>2, ConcatProperties
    <3>2. Len(wire) \in Nat /\ Len(buffer) \in Nat /\ Len(<<>>) = 0
      BY <1>2, LenProperties
    <3> QED
      BY <2>1, <3>1, <3>2
  <2>3. U = <<>>
    <3>1. U \in Seq(Bytes) /\ Len(U) = 0
      BY <1>2, <2>2, Stream
    <3> QED
      BY <3>1, EmptySeq
  <2>4. Len(messages) = Len(sizes)
    BY <1>1, <2>1, <2>3 DEF AlignedInv
  <2>5. /\ Frame(f, n) \in Seq(Bytes) /\ Len(Frame(f, n)) = HeaderSize + n
        /\ n \in Nat \ {0}
    BY <1>3, FrameBytes
  <2>6. U' = Frame(f, n)
    BY <1>3, <2>3, <2>5, ConcatEmptySeq
  <2>7. U' # <<>>
    <3>1. Len(<<>>) = 0 /\ HeaderSize + n # 0
      BY <2>5 DEF HeaderSize
    <3> QED
      BY <2>5, <2>6, <3>1
  <2>8. Len(messages') = Len(sizes') - 1
    BY <1>3, <1>4, <1>5, <2>4
  <2> QED
    BY <1>3, <2>6, <2>7, <2>8
<1> QED
  BY <1>6, <1>7, <1>8, <1>9, <1>10 DEF InputInv

LEMMA ReceiveKeeps ==
  ASSUME InputInv, NEW m \in 1 .. Len(wire), Receive(m)
  PROVE  InputInv'
<1> DEFINE q == Front(m)
<1>1. TypeOK /\ Typed /\ StreamInv /\ AlignedInv /\ MessagesInv
  BY DEF InputInv
<1>2. buffer \in Seq(Bytes) /\ wire \in Seq(Bytes) /\ sizes \in Seq(TextSizes)
  BY <1>1 DEF Typed
<1>3. /\ FrontBytes(q) /\ Len(q) \in 1 .. Len(U) /\ Len(U) \in Nat
  <2>1. /\ q \in Seq(Bytes) /\ Len(q) \in 1 .. Len(U)
        /\ \A i \in 1 .. Len(q) : q[i] = U[i]
    BY <1>2, Collected
  <2>2. Len(U) \in Nat
    BY <1>2, Stream
  <2> QED
    BY <2>1, <2>2 DEF FrontBytes
<1>4. /\ buffer' \in Seq(Bytes) /\ wire' \in Seq(Bytes) /\ U' \in Seq(Bytes)
      /\ IF BadMagic(q) \/ Complete(q)
         THEN buffer' = <<>> /\ Moved(Len(q))
         ELSE buffer' = q /\ Moved(0) /\ U' = U
  BY <1>2, ReceiveMoves
<1>5. /\ sizes' = sizes /\ overlapped' = overlapped
      /\ messages' = IF Complete(q) THEN Append(messages, Text(q)) ELSE messages
  BY DEF Receive, Front
<1>6. messages \in Seq(Seq(Bytes)) /\ Len(messages) \in Nat
  BY <1>1, LenProperties DEF TypeOK
<1> HIDE DEF q
<1>7. Typed'
  BY <1>1, <1>4, <1>5 DEF Typed
<1>8. StreamInv'
  <2>1. \E d : Moved(d)
    BY <1>4
  <2> QED
    BY <1>1, <1>2, <1>5, <2>1, StreamMoves
<1> DEFINE f == U[1].frame
           n == sizes[f]
<1>9. CASE Complete(q)
  <2>1. /\ f \in 1 .. Len(sizes) /\ Text(q) \in Seq(Bytes) /\ Text(q)[1].frame = f
        /\ Text(q) = SubSeq(Frame(f, n), HeaderSize + 1, HeaderSize + n)
    BY <1>1, <1>3, <1>9, TextOfFrame
  <2>2. /\ messages' \in Seq(Seq(Bytes)) /\ Len(messages') = Len(messages) + 1
        /\ \A k \in 1 .. Len(messages) : messages'[k] = messages[k]
        /\ messages'[Len(messages) + 1] = Text(q)
    <3> DEFINE S == Seq(Bytes)
               t == Text(q)
    <3>1. messages \in Seq(S) /\ t \in S /\ messages' = Append(messages, t)
      BY <1>5, <1>6, <1>9, <2>1
    <3> HIDE DEF S, t
    <3>2. /\ Append(messages, t) \in Seq(S)
          /\ Len(Append(messages, t)) = Len(messages) + 1
          /\ \A k \in 1 .. Len(messages) : Append(messages, t)[k] = messages[k]
          /\ Append(messages, t)[Len(messages) + 1] = t
      BY <3>1, AppendProperties
    <3> QED
      BY <3>1, <3>2 DEF S, t
  <2> HIDE DEF f
  <2>3. ASSUME NEW k \in 1 .. Len(messages')
        PROVE  LET g == messages'[k][1].frame
               IN  /\ g \in 1 .. Len(sizes)
                   /\ messages'[k] = SubSeq(Frame(g, sizes[g]), HeaderSize + 1,
                                            HeaderSize + sizes[g])
    <3>1. CASE k \in 1 .. Len(messages)
      BY <1>1, <2>2, <3>1 DEF MessagesInv, MessagesWhole
    <3>2. CASE k = Len(messages) + 1
      BY <2>1, <2>2, <3>2
    <3> QED
      BY <1>6, <2>2, <3>1, <3>2
  <2>4. MessagesInv'
    BY <1>5, <2>3 DEF MessagesInv, MessagesWhole
  <2>5. buffer' = <<>>
    BY <1>4, <1>9
  <2>6. TypeOK'
    <3>1. ~BadMagic(buffer') /\ ~Complete(buffer')
      BY <2>5, EmptyBuffer
    <3> QED
      BY <1>1, <1>4, <1>5, <2>2, <3>1 DEF TypeOK
  <2>7. AlignedInv'
    <3> SUFFICES ASSUME ~overlapped'
                 PROVE  U' = <<>> /\ Len(messages') = Len(sizes')
      BY DEF AlignedInv
    <3>1. Len(q) = Len(U)
      BY <1>1, <1>3, <1>5, <1>9, AlignedFront
    <3>2. Len(U') = 0
      <4>1. Len(U') = Len(U) - Len(q)
        BY <1>4, <1>9 DEF Moved
      <4> QED
        BY <1>3, <3>1, <4>1
    <3>3. U' = <<>>
      BY <1>4, <3>2, EmptySeq
    <3>4. U # <<>>
      <4>1. Len(<<>>) = 0
        OBVIOUS
      <4> QED
        BY <1>3, <4>1
    <3>5. Len(messages) = Len(sizes) - 1
      BY <1>1, <1>5, <3>4 DEF AlignedInv
    <3>6. Len(messages') = Len(sizes')
      <4>1. Len(sizes) \in Nat
        BY <1>2, SizesTypes
      <4> QED
        BY <1>5, <1>6, <2>2, <3>5, <4>1
    <3> QED
      BY <3>3, <3>6
  <2> QED
    BY <1>7, <1>8, <2>4, <2>6, <2>7 DEF InputInv
<1>10. CASE ~Complete(q)
  <2>1. messages' = messages
    BY <1>5, <1>10
  <2>2. MessagesInv'
    BY <1>1, <1>5, <2>1 DEF MessagesInv, MessagesWhole
  <2>3. TypeOK'
    <3>1. ~BadMagic(buffer') /\ ~Complete(buffer')
      BY <1>4, <1>10, EmptyBuffer
    <3> QED
      BY <1>1, <1>4, <1>5, <2>1, <3>1 DEF TypeOK
  <2>4. AlignedInv'
    <3> SUFFICES ASSUME ~overlapped
                 PROVE  AlignedInv'
      BY <1>5 DEF AlignedInv
    <3>1. ~BadMagic(q)
      BY <1>1, <1>3, AlignedFront
    <3>2. U' = U
      BY <1>4, <1>10, <3>1
    <3> QED
      BY <1>1, <1>5, <2>1, <3>2 DEF AlignedInv
  <2> QED
    BY <1>7, <1>8, <2>2, <2>3, <2>4 DEF InputInv
<1> QED
  BY <1>9, <1>10

LEMMA StutterKeeps ==
  ASSUME InputInv, UNCHANGED vars
  PROVE  InputInv'
<1>1. /\ wire' = wire /\ buffer' = buffer /\ messages' = messages
      /\ sizes' = sizes /\ overlapped' = overlapped
  BY DEF vars
<1>2. U' = U
  BY <1>1 DEF U, UnderWay
<1>3. TypeOK' /\ Typed'
  BY <1>1 DEF InputInv, TypeOK, Typed
<1>4. StreamInv'
  <2>1. ASSUME NEW i \in 1 .. Len(U) PROVE ByteInv(i)'
    BY <1>1, <1>2, <2>1 DEF InputInv, StreamInv, ByteInv, EndOf
  <2>2. ASSUME NEW i \in 1 .. Len(U), NEW j \in 1 .. Len(U) PROVE PairInv(i, j)'
    BY <1>1, <1>2, <2>2 DEF InputInv, StreamInv, PairInv, EndOf
  <2>3. Len(U') < TextAsLength
    BY <1>1, <1>2 DEF InputInv, StreamInv
  <2> QED
    BY <1>2, <2>1, <2>2, <2>3 DEF StreamInv
<1>5. AlignedInv' /\ MessagesInv'
  BY <1>1, <1>2 DEF InputInv, AlignedInv, MessagesInv, MessagesWhole
<1> QED
  BY <1>3, <1>4, <1>5 DEF InputInv

LEMMA Invariance == Spec => []InputInv
<1>1. InputInv /\ [Next]_vars => InputInv'
  BY SendKeeps, ReceiveKeeps, StutterKeeps DEF Next, ReceiveSome
<1> QED
  BY InitKeeps, <1>1, PTL DEF Spec

-----------------------------------------------------------------------------
(* Theorems *)

\* appendData never leaves a complete frame or a wrong magic number at the
\* front of what it keeps, and what it hands on is bytes it was sent.
THEOREM TypeCorrect == Spec => []TypeOK
<1>1. InputInv => TypeOK
  BY DEF InputInv
<1> QED
  BY Invariance, <1>1, PTL

\* However the socket cuts the bytes and wherever the client's commands
\* overlap, handleJsonCommand is given the whole text of one frame: a header
\* that appendData accepts is the header of a frame, because four bytes of a
\* text never are the length of one.
THEOREM WholeMessages == Spec => []MessagesWhole
<1>1. InputInv => MessagesWhole
  BY DEF InputInv, MessagesInv
<1> QED
  BY Invariance, <1>1, PTL

\* A client that sends a command only when the one before it was taken finds
\* the session aligned with it: it keeps the front of one frame, and every
\* frame before that one was handed on.
THEOREM FramesAligned == Spec => []Aligned
<1>1. InputInv => Aligned
  BY DEF InputInv, AlignedInv, Aligned, U
<1> QED
  BY Invariance, <1>1, PTL

-----------------------------------------------------------------------------
(* The channel: a frame is in flight as long as its first byte is under way. *)

LEMMA Flight ==
  ASSUME Typed, StreamInv, NEW f \in 1 .. Len(sizes)
  PROVE  Cardinality(BytesOf(f)) = HeaderSize + sizes[f]
           <=> \E i \in 1 .. Len(U) : U[i].frame = f /\ U[i].pos = 1
<1> DEFINE L == Len(U)
           n == sizes[f]
           B == BytesOf(f)
<1>1. L \in Nat /\ HeaderSize = 8 /\ n \in Nat \ {0} /\ U \in Seq(Bytes)
  BY Stream, SizesTypes DEF Typed, HeaderSize
<1>2. B = {j \in 1 .. L : U[j].frame = f}
  BY DEF BytesOf, U
<1>3. \A i \in 1 .. L : U[i].pos \in Nat \ {0}
  BY <1>1, ByteTypes
<1>4. /\ \A i \in 1 .. L : ByteInv(i)
      /\ \A i, j \in 1 .. L : PairInv(i, j)
  BY DEF StreamInv
<1> HIDE DEF L, n, B
\* The bytes of a frame lie side by side.
<1>5. ASSUME NEW i \in 1 .. L, U[i].frame = f
      PROVE  /\ i + 8 + n - U[i].pos \in i .. L
             /\ \A j \in 1 .. L : j \in B <=> (i - U[i].pos < j /\ j <= i + 8 + n - U[i].pos)
             /\ \A j \in 1 .. L : j \in B => U[j].pos - U[i].pos = j - i
  <2>1. EndOf(i) = i + 8 + n - U[i].pos
    BY <1>1, <1>5 DEF EndOf, n
  <2>2. EndOf(i) <= L /\ U[i].pos \in 1 .. 8 + n
    BY <1>1, <1>4, <1>5 DEF ByteInv, L, n
  <2>3. i + 8 + n - U[i].pos \in i .. L
    <3> DEFINE p == U[i].pos
    <3>1. p \in 1 .. 8 + n /\ i + 8 + n - p <= L
      BY <2>1, <2>2
    <3> HIDE DEF p
    <3>2. i + 8 + n - p \in i .. L
      BY <1>1, <3>1
    <3> QED
      BY <3>2 DEF p
  <2>4. ASSUME NEW j \in 1 .. L
        PROVE  /\ j \in B <=> (i - U[i].pos < j /\ j <= i + 8 + n - U[i].pos)
               /\ j \in B => U[j].pos - U[i].pos = j - i
    <3>1. PairInv(i, j)
      BY <1>4
    <3>2. j \in B <=> U[j].frame = f
      BY <1>2
    <3> QED
      BY <1>5, <2>1, <3>1, <3>2 DEF PairInv
  <2> QED
    BY <2>3, <2>4
<1>6. CASE B = {}
  <2>1. Cardinality(B) = 0 /\ 0 # 8 + n
    BY <1>1, <1>6, FS_EmptySet
  <2>2. \A i \in 1 .. L : U[i].frame # f
    BY <1>2, <1>6
  <2> QED
    BY <1>1, <2>1, <2>2 DEF B, L, n
<1>7. ASSUME NEW i \in 1 .. L, U[i].frame = f, U[i].pos = 1
      PROVE  Cardinality(B) = 8 + n
  <2>1. /\ i + 8 + n - 1 \in i .. L
        /\ \A j \in 1 .. L : j \in B <=> (i - 1 < j /\ j <= i + 8 + n - 1)
    BY <1>5, <1>7
  <2>2. \A j \in 1 .. L : (i - 1 < j /\ j <= i + 8 + n - 1) <=> j \in i .. i + 8 + n - 1
    BY <1>1
  <2>3. i .. i + 8 + n - 1 \subseteq 1 .. L /\ B \subseteq 1 .. L
    BY <1>1, <1>2, <2>1
  <2>4. B = i .. i + 8 + n - 1
    BY <2>1, <2>2, <2>3
  <2> DEFINE e == i + 8 + n - 1
  <2>5. i \in Int /\ e \in Int /\ ~(i > e) /\ e - i + 1 = 8 + n
    BY <1>1
  <2>6. B = i .. e
    BY <2>4
  <2> HIDE DEF e
  <2> QED
    BY <2>5, <2>6, FS_Interval
<1>8. ASSUME NEW i \in 1 .. L, U[i].frame = f,
             \A k \in 1 .. L : ~(U[k].frame = f /\ U[k].pos = 1)
      PROVE  Cardinality(B) # 8 + n
  <2> DEFINE p == U[i].pos
             e == i + 8 + n - p
  <2>1. p \in Nat \ {0}
    BY <1>3
  <2>2. /\ e \in i .. L
        /\ \A j \in 1 .. L : j \in B <=> (i - p < j /\ j <= e)
        /\ \A j \in 1 .. L : j \in B => U[j].pos - p = j - i
    BY <1>5, <1>8
  <2>3. i - p < 0
    <3> SUFFICES ASSUME ~(i - p < 0) PROVE FALSE
      OBVIOUS
    <3> DEFINE j == i - p + 1
    <3>1. /\ j \in 1 .. L /\ i - p < j /\ j <= i /\ i \in Int
          /\ j - i = 1 - p
      <4> HIDE DEF p
      <4> QED
        BY <1>1, <2>1
    <3>2. j <= e
      <4> HIDE DEF p, e, j
      <4> QED
        BY <1>1, <2>2, <3>1
    <3>3. j \in B
      BY <2>2, <3>1, <3>2
    <3>4. U[j].frame = f /\ U[j].pos - p = j - i
      BY <1>2, <2>2, <3>1, <3>3
    <3>5. U[j].pos = 1
      <4> DEFINE r == U[j].pos
      <4>1. r \in Nat
        BY <1>3, <3>1
      <4>2. r - p = 1 - p
        BY <3>1, <3>4, Zenon
      <4> HIDE DEF p, r, j
      <4>3. r = 1
        BY <1>1, <2>1, <4>1, <4>2
      <4> QED
        BY <4>3 DEF r
    <3> QED
      BY <1>8, <3>1, <3>4, <3>5
  <2>4. B = 1 .. e
    <3> HIDE DEF p, e
    <3>1. \A j \in 1 .. L : (i - p < j /\ j <= e) <=> j \in 1 .. e
      BY <1>1, <2>1, <2>2, <2>3
    <3>2. 1 .. e \subseteq 1 .. L /\ B \subseteq 1 .. L
      BY <1>1, <1>2, <2>2
    <3> QED
      BY <2>2, <3>1, <3>2
  <2>5. e \in Int /\ ~(1 > e) /\ e - 1 + 1 = e
    <3> HIDE DEF e
    <3> QED
      BY <1>1, <2>2
  <2>6. Cardinality(B) = e
    <3> HIDE DEF e
    <3> QED
      BY <2>4, <2>5, FS_Interval
  <2>7. e # 8 + n
    <3> HIDE DEF p
    <3> QED
      BY <1>1, <2>1, <2>3
  <2> QED
    BY <2>6, <2>7
<1>9. CASE B # {}
  <2>1. PICK i \in 1 .. L : U[i].frame = f
    BY <1>2, <1>9
  <2>2. Cardinality(B) = 8 + n <=> \E k \in 1 .. L : U[k].frame = f /\ U[k].pos = 1
    BY <1>7, <1>8, <2>1
  <2> QED
    BY <1>1, <2>2 DEF B, L, n
<1> QED
  BY <1>6, <1>9

LEMMA Flights ==
  ASSUME Typed, StreamInv
  PROVE  FlightInv
BY Flight DEF FlightInv, InFlight, FirstBytes

-----------------------------------------------------------------------------
(* Every step of the input is a step of the channel. *)

D == [k \in 1 .. Len(messages) |-> messages[k][1].frame]

LEMMA DeliveredFrames ==
  ASSUME NEW ms, Len(ms) \in Nat, \A k \in 1 .. Len(ms) : ms[k][1].frame \in Nat
  PROVE  LET d == [k \in 1 .. Len(ms) |-> ms[k][1].frame]
         IN  /\ d \in Seq(Nat) /\ Len(d) = Len(ms)
             /\ \A k \in 1 .. Len(ms) : d[k] = ms[k][1].frame
<1> DEFINE d == [k \in 1 .. Len(ms) |-> ms[k][1].frame]
<1>1. d \in [1 .. Len(ms) -> Nat]
  OBVIOUS
<1>2. d \in Seq(Nat)
  BY <1>1, SeqDef
<1>3. Len(d) = Len(ms)
  <2>1. Len(d) \in Nat /\ DOMAIN d = 1 .. Len(d) /\ DOMAIN d = 1 .. Len(ms)
    BY <1>1, <1>2, LenProperties
  <2> QED
    BY <2>1
<1> QED
  BY <1>2, <1>3

LEMMA SendIsSend ==
  ASSUME InputInv, FlightInv, FlightInv', NEW n \in TextSizes, SendFrame(n)
  PROVE  Channel!Send
<1> DEFINE f == Len(sizes) + 1
           L == Len(U)
<1>1. TypeOK /\ Typed /\ StreamInv
  BY DEF InputInv
<1>2. InFlight = FirstBytes /\ InFlight' = FirstBytes'
  BY DEF FlightInv
<1>3. /\ f \in 1 .. MaxFrames /\ n \in Nat \ {0}
      /\ Len(U') = L + HeaderSize + n
      /\ \A i \in 1 .. L : U'[i] = U[i]
      /\ \A i \in L + 1 .. Len(U') :
           U'[i] = [frame |-> f, pos |-> i - L, val |-> ByteValue(i - L, n)]
      /\ Len(sizes') = f
  BY <1>1, SendAppends DEF Typed
<1>4. L \in Nat /\ Len(sizes) \in Nat /\ HeaderSize = 8 /\ L = Len(buffer) + Len(wire)
      /\ Len(buffer) \in Nat /\ Len(wire) \in Nat
  BY <1>1, Stream, SizesTypes DEF Typed, HeaderSize
<1> HIDE DEF f, L
<1>5. ASSUME NEW i \in L + 1 .. Len(U')
      PROVE  U'[i].frame = f /\ U'[i].pos = i - L
  <2>1. U'[i] = [frame |-> f, pos |-> i - L, val |-> ByteValue(i - L, n)]
    BY <1>3
  <2> QED
    BY <2>1
<1>6. InFlight' = InFlight \cup {f}
  <2>1. L + 1 \in 1 .. Len(U') /\ U'[L + 1].frame = f /\ U'[L + 1].pos = 1
    <3> DEFINE k == L + 1
               K == Len(U')
    <3>1. k \in L + 1 .. K /\ k \in 1 .. K /\ k - L = 1
      <4>1. K = L + 8 + n /\ n \in Nat \ {0}
        BY <1>3, <1>4
      <4> HIDE DEF K
      <4> QED
        BY <1>4, <4>1
    <3> HIDE DEF k
    <3>2. U'[k].frame = f /\ U'[k].pos = k - L
      BY <1>5, <3>1
    <3> QED
      BY <3>1, <3>2 DEF k
  <2>2. ASSUME NEW g \in FirstBytes PROVE g \in FirstBytes'
    <3>1. PICK i \in 1 .. L : U[i].frame = g /\ U[i].pos = 1
      BY DEF FirstBytes, L
    <3>2. i \in 1 .. Len(U') /\ U'[i] = U[i]
      <4>1. U'[i] = U[i]
        BY <1>3
      <4> DEFINE K == Len(U')
      <4>2. K = L + 8 + n /\ n \in Nat \ {0}
        BY <1>3, <1>4
      <4> HIDE DEF K
      <4>3. i \in 1 .. K
        BY <1>4, <4>2
      <4> QED
        BY <4>1, <4>3 DEF K
    <3>3. g \in 1 .. Len(sizes')
      <4>1. g \in 1 .. Len(sizes)
        BY DEF FirstBytes
      <4> QED
        BY <1>3, <1>4, <4>1 DEF f
    <3> QED
      BY <3>1, <3>2, <3>3 DEF FirstBytes
  <2>3. f \in FirstBytes'
    <3>1. f \in 1 .. Len(sizes')
      BY <1>3, <1>4 DEF f
    <3> QED
      BY <2>1, <3>1 DEF FirstBytes
  <2>4. ASSUME NEW g \in FirstBytes', g # f PROVE g \in FirstBytes
    <3>1. PICK i \in 1 .. Len(U') : U'[i].frame = g /\ U'[i].pos = 1
      BY DEF FirstBytes
    <3>2. i \in 1 .. L
      <4>1. CASE i \in L + 1 .. Len(U')
        BY <1>5, <2>4, <3>1, <4>1
      <4>2. Len(U') \in Nat
        BY <1>3, <1>4
      <4> QED
        BY <1>4, <4>1, <4>2
    <3>3. U[i].frame = g /\ U[i].pos = 1
      BY <1>3, <3>1, <3>2
    <3>4. g \in 1 .. Len(sizes)
      BY <1>1, <3>2, <3>3 DEF StreamInv, ByteInv, L
    <3> QED
      BY <3>2, <3>3, <3>4 DEF FirstBytes, L
  <2> QED
    BY <1>2, <2>2, <2>3, <2>4
<1>7. overlapped' \in {overlapped, TRUE}
  BY <1>1 DEF SendFrame, TypeOK
<1>8. InFlight # {} => overlapped'
  <2> SUFFICES ASSUME InFlight # {} PROVE wire \o buffer # <<>>
    BY DEF SendFrame
  <2>1. PICK i : i \in 1 .. L
    BY <1>2 DEF FirstBytes, L
  <2>2. Len(wire \o buffer) = Len(wire) + Len(buffer)
    BY <1>1, ConcatProperties DEF Typed
  <2>3. Len(<<>>) = 0 /\ Len(wire) + Len(buffer) # 0
    BY <1>4, <2>1
  <2> QED
    BY <2>2, <2>3
<1>9. Len(sizes) < MaxFrames /\ messages' = messages
  BY DEF SendFrame
<1> QED
  BY <1>3, <1>6, <1>7, <1>8, <1>9 DEF Channel!Send, f

\* What was taken from the front of the stream took no frame into flight.
LEMMA FewerInFlight ==
  ASSUME Typed, StreamInv, sizes' = sizes, NEW d, Moved(d)
  PROVE  \A g \in FirstBytes' :
           /\ g \in FirstBytes
           /\ \E i \in d + 1 .. Len(U) : U[i].frame = g /\ U[i].pos = 1
<1> SUFFICES ASSUME NEW g \in FirstBytes'
             PROVE  /\ g \in FirstBytes
                    /\ \E i \in d + 1 .. Len(U) : U[i].frame = g /\ U[i].pos = 1
  OBVIOUS
<1>1. Len(U) \in Nat
  BY Stream DEF Typed
<1>2. PICK j \in 1 .. Len(U') : U'[j].frame = g /\ U'[j].pos = 1
  BY DEF FirstBytes
<1>3. d \in 0 .. Len(U) /\ Len(U') = Len(U) - d /\ U'[j] = U[d + j]
  BY DEF Moved
<1>4. d + j \in 1 .. Len(U) /\ d + j \in d + 1 .. Len(U)
  <2> DEFINE L == Len(U)
             K == Len(U')
  <2>1. L \in Nat /\ d \in 0 .. L /\ K = L - d /\ j \in 1 .. K
    BY <1>1, <1>3
  <2> HIDE DEF L, K
  <2>2. d + j \in 1 .. L /\ d + j \in d + 1 .. L
    BY <2>1
  <2> QED
    BY <2>2 DEF L
<1>5. U[d + j].frame = g /\ U[d + j].pos = 1
  BY <1>2, <1>3
<1>6. g \in 1 .. Len(sizes)
  BY DEF FirstBytes
<1> QED
  BY <1>4, <1>5, <1>6 DEF FirstBytes

LEMMA ReceiveIsStep ==
  ASSUME InputInv, FlightInv, FlightInv', NEW m \in 1 .. Len(wire), Receive(m)
  PROVE  Channel!Deliver \/ Channel!Lose \/ UNCHANGED Channel!channelVars
<1> DEFINE q == Front(m)
<1>1. TypeOK /\ Typed /\ StreamInv /\ AlignedInv /\ MessagesInv
  BY DEF InputInv
<1>2. buffer \in Seq(Bytes) /\ wire \in Seq(Bytes)
  BY <1>1 DEF Typed
<1>3. FrontBytes(q) /\ Len(q) \in 1 .. Len(U) /\ Len(U) \in Nat
  <2>1. /\ q \in Seq(Bytes) /\ Len(q) \in 1 .. Len(U)
        /\ \A i \in 1 .. Len(q) : q[i] = U[i]
    BY <1>2, Collected
  <2>2. Len(U) \in Nat
    BY <1>2, Stream
  <2> QED
    BY <2>1, <2>2 DEF FrontBytes
<1>4. IF BadMagic(q) \/ Complete(q) THEN Moved(Len(q)) ELSE U' = U
  BY <1>2, ReceiveMoves
<1>5. /\ sizes' = sizes /\ overlapped' = overlapped
      /\ messages' = IF Complete(q) THEN Append(messages, Text(q)) ELSE messages
  BY DEF Receive, Front
<1>6. InFlight = FirstBytes /\ InFlight' = FirstBytes'
  BY DEF FlightInv
<1> HIDE DEF q
<1>7. CASE Complete(q)
  <2> DEFINE f == U[1].frame
             t == Text(q)
             d == Len(q)
  <2>1. /\ WholeFirst(f, sizes[f]) /\ f \in 1 .. Len(sizes)
        /\ t \in Seq(Bytes) /\ t[1].frame = f
    BY <1>1, <1>3, <1>7, TextOfFrame
  <2>2. 1 \in 1 .. Len(U) /\ U[1].pos = 1 /\ d \in 1 .. Len(U)
    <3>1. 1 \in 1 .. Len(U)
      BY <1>3
    <3>2. 1 \in 1 .. HeaderSize + sizes[f]
      <4> DEFINE n == sizes[f]
      <4>1. n \in Nat \ {0}
        BY <2>1 DEF WholeFirst
      <4> HIDE DEF n
      <4>2. 1 \in 1 .. 8 + n
        BY <4>1
      <4> QED
        BY <4>2 DEF n, HeaderSize
    <3>3. U[1] = [frame |-> f, pos |-> 1, val |-> ByteValue(1, sizes[f])]
      BY <2>1, <3>2 DEF WholeFirst
    <3> QED
      BY <1>3, <3>1, <3>3
  <2>3. f \in InFlight
    BY <1>6, <2>1, <2>2 DEF FirstBytes
  <2>4. Moved(d)
    BY <1>4, <1>7
  <2>5. ASSUME NEW g \in InFlight'
        PROVE  g \in InFlight /\ g > f
    <3>1. PICK i \in d + 1 .. Len(U) : U[i].frame = g /\ U[i].pos = 1
      BY <1>1, <1>5, <1>6, <2>4, FewerInFlight
    <3>2. g \in FirstBytes /\ g \in 1 .. Len(sizes)
      <4>1. g \in FirstBytes
        BY <1>1, <1>5, <1>6, <2>4, FewerInFlight
      <4> QED
        BY <4>1 DEF FirstBytes
    <3>3. i \in 1 .. Len(U) /\ 1 < i /\ i - 1 # 0
      BY <1>3, <2>2
    <3>4. PairInv(1, i)
      BY <1>1, <2>2, <3>3 DEF StreamInv
    <3>5. f <= g
      BY <3>1, <3>3, <3>4 DEF PairInv
    <3>6. f # g
      <4> SUFFICES ASSUME f = g PROVE FALSE
        OBVIOUS
      <4>1. 1 - 1 = i - 1
        BY <2>2, <3>1, <3>4 DEF PairInv
      <4> QED
        BY <3>3, <4>1
    <3>7. g > f
      <4> HIDE DEF f
      <4>1. Len(sizes) \in Nat
        BY <1>1, SizesTypes DEF Typed
      <4> QED
        BY <2>1, <3>2, <3>5, <3>6, <4>1
    <3> QED
      BY <1>6, <3>2, <3>7
  <2>6. D' = Append(D, f)
    <3> DEFINE S == Seq(Bytes)
    <3>1. messages \in Seq(S) /\ Len(messages) \in Nat /\ messages' = Append(messages, t)
      BY <1>1, <1>5, <1>7, LenProperties DEF TypeOK
    <3>2. /\ Len(messages') = Len(messages) + 1
          /\ \A k \in 1 .. Len(messages) : messages'[k] = messages[k]
          /\ messages'[Len(messages) + 1] = t
      <4> HIDE DEF S, t
      <4>1. t \in S
        BY <2>1 DEF S, t
      <4> QED
        BY <3>1, <4>1, AppendProperties
    <3> HIDE DEF S, t, f
    <3>3. f \in Nat /\ \A k \in 1 .. Len(messages) : messages[k][1].frame \in Nat
      <4>1. 1 .. Len(sizes) \subseteq Nat
        BY <1>1, SizesTypes DEF Typed
      <4> QED
        BY <1>1, <2>1, <4>1 DEF MessagesInv
    <3>4. /\ D \in Seq(Nat) /\ Len(D) = Len(messages)
          /\ \A k \in 1 .. Len(messages) : D[k] = messages[k][1].frame
      BY <3>1, <3>3, DeliveredFrames DEF D
    <3>5. \A k \in 1 .. Len(messages') :
            k \in 1 .. Len(messages) \/ k = Len(messages) + 1
      BY <3>1, <3>2
    <3>6. \A k \in 1 .. Len(messages') : messages'[k][1].frame \in Nat
      BY <2>1, <3>2, <3>3, <3>5
    <3>7. Len(messages') \in Nat
      BY <3>1, <3>2
    <3>8. /\ D' \in Seq(Nat) /\ Len(D') = Len(messages')
          /\ \A k \in 1 .. Len(messages') : D'[k] = messages'[k][1].frame
      BY <3>6, <3>7, DeliveredFrames DEF D
    <3>9. /\ Append(D, f) \in Seq(Nat) /\ Len(Append(D, f)) = Len(messages) + 1
          /\ \A k \in 1 .. Len(messages) : Append(D, f)[k] = D[k]
          /\ Append(D, f)[Len(messages) + 1] = f
      BY <3>3, <3>4, AppendProperties
    <3> DEFINE a == Append(D, f)
               b == D'
    <3>10. ASSUME NEW k \in 1 .. Len(messages') PROVE b[k] = a[k]
      BY <2>1, <3>2, <3>4, <3>5, <3>8, <3>9
    <3>11. Len(a) = Len(messages') /\ Len(b) = Len(messages') /\ a \in Seq(Nat) /\ b \in Seq(Nat)
      BY <3>2, <3>8, <3>9
    <3> HIDE DEF a, b
    <3>12. b = a
      BY <3>10, <3>11, SeqEqual
    <3> QED
      BY <3>12 DEF a, b
  <2>7. Channel!Deliver
    <3>1. InFlight' \in SUBSET {g \in InFlight : g > f}
      BY <2>5
    <3>2. UNCHANGED <<Len(sizes), overlapped>>
      BY <1>5
    <3> HIDE DEF f
    <3> QED
      BY <2>3, <2>6, <3>1, <3>2 DEF Channel!Deliver, D
  <2> QED
    BY <2>7
<1>8. CASE ~Complete(q) /\ BadMagic(q)
  <2>1. overlapped
    BY <1>1, <1>3, <1>8, AlignedFront
  <2>2. \A g \in InFlight' : g \in InFlight
    BY <1>1, <1>4, <1>5, <1>6, <1>8, FewerInFlight
  <2>3. messages' = messages
    BY <1>5, <1>8
  <2> QED
    BY <1>5, <2>1, <2>2, <2>3 DEF Channel!Lose
<1>9. CASE ~Complete(q) /\ ~BadMagic(q)
  <2>1. U' = U /\ messages' = messages
    BY <1>4, <1>5, <1>9
  <2>2. InFlight' = InFlight
    BY <1>5, <1>6, <2>1 DEF FirstBytes
  <2> QED
    BY <1>5, <2>1, <2>2 DEF Channel!channelVars
<1> QED
  BY <1>7, <1>8, <1>9

\* The bytes, the buffer and what appendData discards keep the promise of
\* FrameChannel: every step of the input sends, delivers or loses frames as
\* the channel may, so that commands arrive at most once and in order, and
\* none is lost of a client that does not overlap them.
THEOREM InputIsChannel == Spec => Channel!Init /\ [][Channel!Next]_(Channel!channelVars)
<1>1. Init => Channel!Init
  <2> SUFFICES ASSUME Init PROVE Channel!Init
    OBVIOUS
  <2>1. Len(sizes) = 0 /\ Len(messages) = 0 /\ 1 .. 0 = {}
    BY DEF Init
  <2>2. InFlight = {}
    BY <2>1 DEF InFlight
  <2>3. [k \in 1 .. Len(messages) |-> messages[k][1].frame] = <<>>
    <3>1. [k \in 1 .. Len(messages) |-> messages[k][1].frame] \in Seq(Nat)
          /\ Len([k \in 1 .. Len(messages) |-> messages[k][1].frame]) = 0
      BY <2>1, DeliveredFrames
    <3> QED
      BY <3>1, EmptySeq
  <2> QED
    BY <2>1, <2>2, <2>3 DEF Channel!Init, Init
<1>2. InputInv => FlightInv
  BY Flights DEF InputInv
<1>3. InputInv /\ FlightInv /\ FlightInv' /\ [Next]_vars => [Channel!Next]_(Channel!channelVars)
  <2> SUFFICES ASSUME InputInv, FlightInv, FlightInv', [Next]_vars
               PROVE  [Channel!Next]_(Channel!channelVars)
    OBVIOUS
  <2>1. ASSUME NEW n \in TextSizes, SendFrame(n) PROVE Channel!Next
    BY <2>1, SendIsSend DEF Channel!Next
  <2>2. ASSUME NEW m \in 1 .. Len(wire), Receive(m)
        PROVE  Channel!Next \/ UNCHANGED Channel!channelVars
    BY <2>2, ReceiveIsStep DEF Channel!Next
  <2>3. CASE UNCHANGED vars
    <3>1. /\ wire' = wire /\ buffer' = buffer /\ messages' = messages
          /\ sizes' = sizes /\ overlapped' = overlapped
      BY <2>3 DEF vars
    <3>2. InFlight' = InFlight
      BY <3>1 DEF InFlight, BytesOf, UnderWay
    <3> QED
      BY <3>1, <3>2 DEF Channel!channelVars
  <2> QED
    BY <2>1, <2>2, <2>3 DEF Next, ReceiveSome
<1> QED
  BY Invariance, <1>1, <1>2, <1>3, PTL DEF Spec

\* No command is handed on twice or before one that was sent earlier.
InOrder ==
  \A i, j \in 1 .. Len(messages) : i < j => messages[i][1].frame < messages[j][1].frame

OrderInv ==
  /\ InOrder
  /\ \A k \in 1 .. Len(messages) : \A g \in InFlight : messages[k][1].frame < g

LEMMA OrderKept ==
  ASSUME InputInv, InputInv', OrderInv,
         [Channel!Next]_(Channel!channelVars)
  PROVE  OrderInv'
<1> DEFINE n == Len(messages)
           s == Len(sizes)
<1>1. n \in Nat /\ s \in Nat /\ Len(messages') \in Nat
  BY SizesTypes, LenProperties DEF InputInv, TypeOK
<1>2. /\ \A k \in 1 .. n : messages[k][1].frame \in 1 .. s
      /\ \A k \in 1 .. Len(messages') : messages'[k][1].frame \in Nat
  <2>1. Len(sizes') \in Nat
    BY SizesTypes, LenProperties DEF InputInv, TypeOK
  <2>2. 1 .. Len(sizes') \subseteq Nat
    BY <2>1
  <2> QED
    BY <2>2 DEF InputInv, MessagesInv
<1>3. /\ D \in Seq(Nat) /\ Len(D) = n
      /\ \A k \in 1 .. n : D[k] = messages[k][1].frame
  <2>1. 1 .. s \subseteq Nat
    BY <1>1
  <2> QED
    BY <1>1, <1>2, <2>1, DeliveredFrames DEF D
<1>4. /\ D' \in Seq(Nat) /\ Len(D') = Len(messages')
      /\ \A k \in 1 .. Len(messages') : D'[k] = messages'[k][1].frame
  BY <1>1, <1>2, DeliveredFrames DEF D
<1>5. InFlight \subseteq 1 .. s
  BY DEF InFlight
<1> HIDE DEF n, s
<1>6. ASSUME D' = D
      PROVE  /\ Len(messages') = n
             /\ \A k \in 1 .. n : messages'[k][1].frame = messages[k][1].frame
  BY <1>3, <1>4, <1>6
<1>7. CASE Channel!Send
  <2>1. D' = D /\ InFlight' = InFlight \cup {s + 1}
    BY <1>7 DEF Channel!Send, D, s
  <2>2. \A k \in 1 .. n : messages[k][1].frame < s + 1
    <3>1. ASSUME NEW x \in 1 .. s PROVE x < s + 1
      BY <1>1
    <3> QED
      BY <1>2, <3>1
  <2> QED
    BY <1>6, <2>1, <2>2 DEF OrderInv, InOrder, n
<1>8. CASE Channel!Deliver
  <2>1. PICK f \in InFlight :
          /\ D' = Append(D, f) /\ InFlight' \in SUBSET {g \in InFlight : g > f}
    BY <1>8 DEF Channel!Deliver, D
  <2>2. f \in 1 .. s /\ f \in Nat
    BY <1>1, <1>5
  <2>3. /\ Len(messages') = n + 1 /\ messages'[n + 1][1].frame = f
        /\ \A k \in 1 .. n : messages'[k][1].frame = messages[k][1].frame
    <3>1. /\ Len(D') = n + 1 /\ D'[n + 1] = f
          /\ \A k \in 1 .. n : D'[k] = D[k]
      BY <1>3, <2>1, <2>2, AppendProperties
    <3>2. n + 1 \in 1 .. n + 1 /\ \A k \in 1 .. n : k \in 1 .. n + 1
      BY <1>1
    <3> QED
      BY <1>3, <1>4, <3>1, <3>2
  <2>4. \A k \in 1 .. n : messages[k][1].frame < f
    BY DEF OrderInv, n
  <2>5. \A k \in 1 .. n + 1 : k \in 1 .. n \/ k = n + 1
    BY <1>1
  <2>6. InOrder'
    <3> SUFFICES ASSUME NEW i \in 1 .. Len(messages'), NEW j \in 1 .. Len(messages'), i < j
                 PROVE  messages'[i][1].frame < messages'[j][1].frame
      BY DEF InOrder
    <3>1. i \in 1 .. n
      BY <1>1, <2>3
    <3>2. CASE j \in 1 .. n
      BY <2>3, <3>1, <3>2 DEF OrderInv, InOrder, n
    <3>3. CASE j = n + 1
      BY <2>3, <2>4, <3>1, <3>3
    <3> QED
      BY <2>3, <2>5, <3>2, <3>3
  <2>7. ASSUME NEW k \in 1 .. Len(messages'), NEW g \in InFlight'
        PROVE  messages'[k][1].frame < g
    <3>1. g \in InFlight /\ g > f
      BY <2>1
    <3>2. CASE k \in 1 .. n
      BY <2>3, <3>1, <3>2 DEF OrderInv, n
    <3>3. CASE k = n + 1
      <4>1. g \in Int /\ f \in Int
        BY <1>1, <1>5, <2>2, <3>1
      <4>2. f < g
        BY <3>1, <4>1
      <4> QED
        BY <2>3, <3>3, <4>2
    <3> QED
      BY <2>3, <2>5, <3>2, <3>3
  <2> QED
    BY <2>6, <2>7 DEF OrderInv
<1>9. CASE Channel!Lose \/ UNCHANGED Channel!channelVars
  <2>1. D' = D /\ InFlight' \subseteq InFlight
    BY <1>9 DEF Channel!Lose, Channel!channelVars, D
  <2> QED
    BY <1>6, <2>1 DEF OrderInv, InOrder, n
<1> QED
  BY <1>7, <1>8, <1>9 DEF Channel!Next

\* The order of the commands, whatever the client overlaps and the buffer
\* discards: a command is handed on at most once and never after a later one.
THEOREM CommandsInOrder == Spec => []InOrder
<1>1. Init => OrderInv
  <2> SUFFICES ASSUME Init PROVE OrderInv
    OBVIOUS
  <2>1. Len(messages) = 0 /\ 1 .. 0 = {}
    BY DEF Init
  <2> QED
    BY <2>1 DEF OrderInv, InOrder
<1>2. InputInv /\ InputInv' /\ OrderInv /\ [Channel!Next]_(Channel!channelVars) => OrderInv'
  BY OrderKept
<1>3. OrderInv => InOrder
  BY DEF OrderInv
<1> QED
  BY Invariance, InputIsChannel, <1>1, <1>2, <1>3, PTL DEF Spec
=============================================================================
