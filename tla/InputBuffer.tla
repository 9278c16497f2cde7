------------------------------ MODULE InputBuffer ------------------------------
(***************************************************************************)
(* src/src/InputBufferManager.cpp and its caller handleJsonStatic: how the *)
(* bytes of the client's socket become commands.  A frame is a magic       *)
(* number, the length of its text (both 32 bits in network order) and the  *)
(* text.  The socket delivers bytes in pieces of any size; appendData      *)
(* looks only at the front of what it has collected, and empties all of it *)
(* whenever it finds a complete frame or a wrong magic number there.       *)
(*                                                                         *)
(* Bytes keep their values in the headers, because a buffer that lost its  *)
(* alignment reads one field as another; the bytes of a text are all alike. *)
(***************************************************************************)
EXTENDS Integers, Sequences, FiniteSets

CONSTANTS
  TextSizes,   \* lengths of the commands' texts
  MaxFrames    \* bound: frames the client sends

ASSUME MaxFramesAssumption == MaxFrames \in Nat

kRSessionMagicNumber == 33   \* 0x21

HeaderSize == 8

\* No byte of a JSON text is 0.
TextByte == 123

\* The length that four characters of a text are when they are read as one, two
\* gigabytes.  The frames under way are shorter together.
TextAsLength ==
  ((TextByte * 256 + TextByte) * 256 + TextByte) * 256 + TextByte
ASSUME TextSizesAssumption == TextSizes \subseteq 1 .. TextAsLength

VARIABLES
  wire,         \* bytes sent and not read yet
  buffer,       \* _buffer
  messages,     \* what popCurrentMessage returned, message by message
  sizes,        \* history: the text size of every frame sent
  overlapped    \* history: a frame was sent while bytes were under way

vars == <<wire, buffer, messages, sizes, overlapped>>

\* The bytes of frame f, whose text has n.
ByteValue(j, n) ==
  CASE j = 4 -> kRSessionMagicNumber
    [] j = 5 -> ((n \div 256) \div 256) \div 256
    [] j = 6 -> ((n \div 256) \div 256) % 256
    [] j = 7 -> (n \div 256) % 256
    [] j = 8 -> n % 256
    [] j > HeaderSize -> TextByte
    [] OTHER -> 0
Frame(f, n) ==
  [j \in 1 .. HeaderSize + n |-> [frame |-> f, pos |-> j, val |-> ByteValue(j, n)]]

\* ntohl of the four bytes from position j on.  What is read as a length is one,
\* or text: jsonSize + 8 does not reach 2^32.
Word(bytes, j) ==
  ((bytes[j].val * 256 + bytes[j + 1].val) * 256 + bytes[j + 2].val) * 256
    + bytes[j + 3].val

Init ==
  /\ wire = <<>>
  /\ buffer = <<>>
  /\ messages = <<>>
  /\ sizes = <<>>
  /\ overlapped = FALSE

SendFrame(n) ==
  /\ Len(sizes) < MaxFrames
  /\ Len(buffer) + Len(wire) + HeaderSize + n < TextAsLength
  /\ sizes' = Append(sizes, n)
  /\ wire' = wire \o Frame(Len(sizes) + 1, n)
  /\ overlapped' = (overlapped \/ wire \o buffer # <<>>)
  /\ UNCHANGED <<buffer, messages>>

-----------------------------------------------------------------------------
(* appendData, given everything collected so far. *)

TooShort(data) == Len(data) <= HeaderSize

BadMagic(data) ==
  ~TooShort(data) /\ Word(data, 1) # kRSessionMagicNumber

Complete(data) ==
  /\ ~TooShort(data) /\ ~BadMagic(data)
  /\ Word(data, 5) + HeaderSize <= Len(data)

\* reset() and evbuffer_remove both take everything that was collected.
RestAfterFrame(data) ==                              \* mutant
  IF BadMagic(data) THEN <<>>
  ELSE IF Complete(data) THEN SubSeq(data, HeaderSize + Word(data, 5) + 1, Len(data))
  ELSE data
NeverDrained(data) == IF BadMagic(data) THEN <<>> ELSE data      \* mutant
DropsIncomplete(data) == IF TooShort(data) THEN data ELSE <<>>   \* mutant
Remaining(data) ==
  IF BadMagic(data) \/ Complete(data) THEN <<>> ELSE data

WithHeader(data) == SubSeq(data, 1, Word(data, 5))   \* mutant
Text(data) == SubSeq(data, HeaderSize + 1, HeaderSize + Word(data, 5))

\* handleJsonStatic: the first m bytes of the socket are appended, and the
\* message is popped at once if there is one.
Receive(m) ==
  LET data == buffer \o SubSeq(wire, 1, m) IN
  /\ wire' = SubSeq(wire, m + 1, Len(wire))
  /\ buffer' = Remaining(data)
  /\ messages' = IF Complete(data) THEN Append(messages, Text(data)) ELSE messages
  /\ UNCHANGED <<sizes, overlapped>>

ReceiveSome == \E m \in 1 .. Len(wire) : Receive(m)

Next == (\E n \in TextSizes : SendFrame(n)) \/ ReceiveSome

\* The loop reads what the socket has.
Spec == Init /\ [][Next]_vars /\ WF_vars(ReceiveSome)

-----------------------------------------------------------------------------
(* The abstract channel: a frame is in flight while all of its bytes are. *)

UnderWay == buffer \o wire
BytesOf(f) == {j \in 1 .. Len(UnderWay) : UnderWay[j].frame = f}
InFlight ==
  {f \in 1 .. Len(sizes) : Cardinality(BytesOf(f)) = HeaderSize + sizes[f]}

Channel == INSTANCE FrameChannel WITH
  sent <- Len(sizes),
  inFlight <- InFlight,
  delivered <- [k \in 1 .. Len(messages) |-> messages[k][1].frame]

-----------------------------------------------------------------------------
(* Properties *)

Bytes == [frame: 1 .. MaxFrames, pos: Nat \ {0}, val: 0 .. 255]

TypeOK ==
  /\ wire \in Seq(Bytes) /\ buffer \in Seq(Bytes)
  /\ messages \in Seq(Seq(Bytes))
  /\ sizes \in Seq(TextSizes)
  /\ overlapped \in BOOLEAN
  /\ ~BadMagic(buffer) /\ ~Complete(buffer)

\* However the bytes were cut, what is handed to handleJsonCommand is the
\* whole text of one frame, never a part of one or pieces of two.  That is the
\* caller's doing: appendData adds to _currentJson (InputBufferManager.cpp:41), so
\* the texts of two frames appended before a pop come back as one, which
\* doubleInputTest expects (inputbuffer-t.cpp:39-53); handleJsonStatic pops after
\* every append.
MessagesWhole ==
  \A k \in 1 .. Len(messages) :
    LET f == messages[k][1].frame IN
      messages[k] = SubSeq(Frame(f, sizes[f]), HeaderSize + 1, HeaderSize + sizes[f])

\* The input implements the channel: order, at most once, and, for a client
\* that waits for each command to be read, delivery (appendData keeps an
\* incomplete frame until the rest of it arrives).
ImplementsChannel == Channel!Spec

\* Until a client overlaps its commands, the buffer holds at most the front of
\* one frame, which the rest of the socket completes: the reader and the
\* writer agree on where frames begin.
Aligned ==
  overlapped \/ UnderWay = <<>> \/
    /\ UnderWay = Frame(Len(sizes), sizes[Len(sizes)])
    /\ Len(messages) = Len(sizes) - 1
=============================================================================
