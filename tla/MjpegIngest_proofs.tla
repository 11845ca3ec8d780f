-------------------------- MODULE MjpegIngest_proofs --------------------------
(* mjpeg_ingest, proved for every buffer size, every stream and every way to *)
(* cut it into reads.                                                        *)
EXTENDS MjpegIngest, FiniteSetTheorems, SequenceTheorems, TLAPS

\* What is copied out of the buffer is bytes of it: j + 1 is never beyond MAX.
LEMMA ImageType ==
    ASSUME InBounds, phase = "scan", j < buf_ptr, start_of_frame # -1
    PROVE  Image \in Seq(Byte)
<1> DEFINE n == j + 2 - start_of_frame
<1>1. /\ MAX \in Nat /\ buf_ptr \in -1 .. MAX /\ j \in 0 .. MAX
      /\ start_of_frame \in -1 .. MAX - 1 /\ buf \in [-1 .. MAX -> Byte]
  BY MAXAssumption DEF InBounds, TypeOK
<1>2. n \in Int
  BY <1>1
<1>3. \A i \in 1 .. n : start_of_frame + i - 1 \in -1 .. MAX
  BY <1>1
<1>4. Image \in [1 .. n -> Byte]
  <2>1. \A i \in 1 .. n : buf[start_of_frame + i - 1] \in Byte
    BY <1>1, <1>3
  <2>2. Image = [i \in 1 .. n |-> buf[start_of_frame + i - 1]]
    BY DEF Image
  <2> QED
    BY <2>1, <2>2
<1>5. CASE n >= 0
  BY <1>2, <1>4, <1>5
<1>6. CASE n < 0
  <2>1. 1 .. n = 1 .. 0
    BY <1>2, <1>6
  <2>2. Image \in [1 .. 0 -> Byte]
    BY <1>4, <2>1
  <2> QED
    BY <2>2
<1> QED
  BY <1>2, <1>5, <1>6

LEMMA InitInBounds == Init => InBounds
<1> SUFFICES ASSUME Init PROVE InBounds
  OBVIOUS
<1>1. MAX \in Nat \ {0}
  BY MAXAssumption
<1>2. stream.bytes \in Seq(Byte)
  BY StreamsAssumption DEF Init, IsStream
<1>3. NewFrame \in Frame
  BY DEF NewFrame, Frame, interlaced
<1>4. TypeOK
  BY <1>1, <1>2, <1>3 DEF Init, TypeOK, Byte, Upsets, Input
<1> QED
  BY <1>1, <1>4 DEF Init, InBounds, Bounds

LEMMA NextInBounds == InBounds /\ [Next]_vars => InBounds'
<1> SUFFICES ASSUME InBounds, [Next]_vars PROVE InBounds'
  OBVIOUS
<1>1. MAX \in Nat \ {0}
  BY MAXAssumption
<1>2. /\ stream \in Streams /\ Input \in Seq(Byte) /\ Len(Input) \in Nat
  BY StreamsAssumption DEF InBounds, TypeOK, Input, IsStream
<1> USE <1>1, <1>2
<1>a. UNCHANGED stream
  BY DEF Next, Read, EndOfInput, ReadFails, ScanStart, ScanFrame, ScanFirstField,
         ScanSecondField, ScanOther, ScanDone, Move, MoveNothing, MoveNone, vars, start
<1>b. Input' = Input
  BY <1>a DEF Input
<1> USE <1>a, <1>b
<1>c. ASSUME NEW image \in Seq(Byte)
      PROVE  [frame_buf EXCEPT !.f1 = image, !.f2 = <<>>] \in Frame
  <2> DEFINE first == [frame_buf EXCEPT !.f1 = image]
  <2>1. first \in Frame
    BY <1>c DEF InBounds, TypeOK, Frame
  <2>2. [first EXCEPT !.f2 = <<>>] \in Frame
    <3>1. <<>> \in Seq(Byte)
      OBVIOUS
    <3> HIDE DEF first
    <3> QED
      BY <2>1, <3>1 DEF Frame
  <2> QED
    BY <2>2
<1>d. j \in Int /\ buf_ptr \in Int /\ j >= 0 /\ buf_ptr <= MAX
  BY DEF InBounds, TypeOK
<1>3. CASE Read
  <2> PICK n \in 1 .. MAX - buf_ptr :
        /\ taken + n <= Len(Input)
        /\ taken' = taken + n
        /\ buf_ptr' = buf_ptr + n
        /\ buf' = [i \in -1 .. MAX |-> IF i \in buf_ptr .. buf_ptr + n - 1
                                       THEN Input[taken + 1 + (i - buf_ptr)]
                                       ELSE buf[i]]
    BY <1>3 DEF Read
  <2>1. \A i \in buf_ptr .. buf_ptr + n - 1 : Input[taken + 1 + (i - buf_ptr)] \in Byte
    <3> SUFFICES ASSUME NEW i \in buf_ptr .. buf_ptr + n - 1
                 PROVE  Input[taken + 1 + (i - buf_ptr)] \in Byte
      OBVIOUS
    <3>1. taken + 1 + (i - buf_ptr) \in 1 .. Len(Input)
      BY DEF InBounds, TypeOK
    <3> QED
      BY <3>1
  <2>2. buf' \in [-1 .. MAX -> Byte]
    BY <2>1 DEF InBounds, TypeOK
  <2>3. taken' \in 0 .. Len(Input) /\ buf_ptr' \in 0 .. MAX
    BY DEF InBounds, TypeOK
  <2>4. TypeOK'
    BY <1>3, <2>2, <2>3 DEF Read, InBounds, TypeOK, start, marks
  <2>5. Bounds'
    BY <1>3, <2>3 DEF Read, InBounds, TypeOK, Bounds, marks
  <2> QED
    BY <2>4, <2>5 DEF InBounds
<1>4. CASE EndOfInput
  BY <1>4 DEF EndOfInput, InBounds, TypeOK, Bounds, start, buffer, marks, Upsets
<1>4a. CASE ReadFails
  BY <1>4a DEF ReadFails, InBounds, TypeOK, Bounds, start, buffer, marks, Upsets
<1>5. CASE ScanStart
  BY <1>5 DEF ScanStart, At, InBounds, TypeOK, Bounds, start, buffer
<1>6. CASE ScanFrame
  <2>1. Image \in Seq(Byte)
    BY <1>6, ImageType DEF ScanFrame, At
  <2>2. [frame_buf EXCEPT !.f1 = Image, !.f2 = <<>>] \in Frame
    BY <2>1, <1>c
  <2>3. frames' \in Seq(Frame) /\ frame_buf' \in Frame
    BY <1>6, <2>2 DEF ScanFrame, PutFrame, InBounds, TypeOK
  <2>a. upset' \subseteq Upsets
    BY <1>6 DEF ScanFrame, NoteCut, InBounds, TypeOK, Upsets
  <2>b. TypeOK'
    <3>1. j' \in 0 .. MAX /\ move_start' \in -1 .. MAX + 1
      <4>1. j < buf_ptr /\ j' = j + 1 /\ move_start' = j + 2
        BY <1>6 DEF ScanFrame, PutFrame, At
      <4> QED
        BY <4>1, <1>d
    <3>2. /\ UNCHANGED <<options, phase, taken, buf, buf_ptr, dominant_field>>
          /\ start_of_frame' = -1
      BY <1>6 DEF ScanFrame, PutFrame, start, buffer
    <3> QED
      BY <2>3, <2>a, <3>1, <3>2 DEF InBounds, TypeOK
  <2>c. Bounds'
    BY <1>6, <1>d DEF ScanFrame, PutFrame, At, Bounds, buffer
  <2> QED
    BY <2>b, <2>c DEF InBounds
<1>7. CASE ScanFirstField
  <2>1. Image \in Seq(Byte)
    BY <1>7, ImageType DEF ScanFirstField, At
  <2>2. frame_buf' \in Frame
    BY <1>7, <2>1, <1>c DEF ScanFirstField
  <2>a. upset' \subseteq Upsets
    BY <1>7 DEF ScanFirstField, NoteCut, InBounds, TypeOK, Upsets
  <2>b. TypeOK'
    <3>1. j' \in 0 .. MAX
      BY <1>7 DEF ScanFirstField, At, InBounds, TypeOK
    <3> QED
      BY <1>7, <2>2, <2>a, <3>1 DEF ScanFirstField, InBounds, TypeOK, start, buffer
  <2>c. Bounds'
    BY <1>7 DEF ScanFirstField, At, InBounds, TypeOK, Bounds, buffer
  <2> QED
    BY <2>b, <2>c DEF InBounds
<1>8. CASE ScanSecondField
  <2>1. Image \in Seq(Byte)
    BY <1>8, ImageType DEF ScanSecondField, At
  <2>2. [frame_buf EXCEPT !.f2 = Image] \in Frame
    BY <2>1 DEF InBounds, TypeOK, Frame
  <2>3. frames' \in Seq(Frame) /\ frame_buf' \in Frame
    BY <1>8, <2>2 DEF ScanSecondField, PutFrame, InBounds, TypeOK
  <2>a. upset' \subseteq Upsets
    BY <1>8 DEF ScanSecondField, NoteCut, InBounds, TypeOK, Upsets
  <2>b. TypeOK'
    <3>1. j' \in 0 .. MAX /\ move_start' \in -1 .. MAX + 1
      <4>1. j < buf_ptr /\ j' = j + 1 /\ move_start' = j + 2
        BY <1>8 DEF ScanSecondField, PutFrame, At
      <4> QED
        BY <4>1, <1>d
    <3>2. /\ UNCHANGED <<options, phase, taken, buf, buf_ptr>>
          /\ start_of_frame' = -1 /\ dominant_field' = TRUE
      BY <1>8 DEF ScanSecondField, PutFrame, start, buffer
    <3> QED
      BY <2>3, <2>a, <3>1, <3>2 DEF InBounds, TypeOK
  <2>c. Bounds'
    BY <1>8, <1>d DEF ScanSecondField, PutFrame, At, Bounds, buffer
  <2> QED
    BY <2>b, <2>c DEF InBounds
<1>9. CASE ScanOther
  BY <1>9 DEF ScanOther, InBounds, TypeOK, Bounds, start, buffer, marks
<1>10. CASE ScanDone
  BY <1>10 DEF ScanDone, InBounds, TypeOK, Bounds, start, buffer, marks, Upsets
<1>11. CASE Move
  <2>1. buf' \in [-1 .. MAX -> Byte]
    BY <1>11 DEF Move, InBounds, TypeOK
  <2>2. buf_ptr' \in -1 .. MAX
    BY <1>11 DEF Move, InBounds, TypeOK, Bounds
  <2>3. TypeOK'
    <3>1. /\ UNCHANGED <<options, taken, j, start_of_frame, dominant_field, frame_buf,
                         frames, upset>>
          /\ move_start' = -1 /\ phase' = "read"
      BY <1>11 DEF Move, start
    <3> QED
      BY <2>1, <2>2, <3>1 DEF InBounds, TypeOK
  <2>4. Bounds'
    BY <1>11, <2>2 DEF Move, Bounds
  <2> QED
    BY <2>3, <2>4 DEF InBounds
<1>12. CASE MoveNothing
  BY <1>12 DEF MoveNothing, InBounds, TypeOK, Bounds, start, marks, Upsets
<1>13. CASE MoveNone
  BY <1>13 DEF MoveNone, InBounds, TypeOK, Bounds, start, buffer, marks
<1>14. CASE UNCHANGED vars
  BY <1>14 DEF vars, InBounds, TypeOK, Bounds, start, buffer, marks
<1> QED
  BY <1>3, <1>4, <1>4a, <1>5, <1>6, <1>7, <1>8, <1>9, <1>10, <1>11, <1>12, <1>13, <1>14 DEF Next

-----------------------------------------------------------------------------
(* The stream: images one behind the other, markers nowhere else.           *)

LEMMA StreamFacts ==
    ASSUME TypeOK
    PROVE  /\ Len(stream.ends) \in Nat
           /\ Input \in Seq(Byte) /\ Len(Input) \in Nat
           /\ \A k \in 0 .. Len(stream.ends) : End(k) \in 0 .. Len(Input)
           /\ End(Len(stream.ends)) = Len(Input)
           /\ \A k, l \in 0 .. Len(stream.ends) : k < l => End(k) + 4 <= End(l)
<1> DEFINE n == Len(stream.ends)
<1>1. IsStream(stream)
  BY StreamsAssumption DEF TypeOK
<1>2. /\ stream.bytes \in Seq(Byte) /\ stream.ends \in Seq(Nat)
      /\ n \in Nat /\ Len(Input) \in Nat
  BY <1>1 DEF IsStream, Input
<1>3. \A k, l \in 0 .. n : k < l => End(k) + 4 <= End(l)
  BY <1>1 DEF IsStream, End
<1>4. End(n) = Len(Input)
  BY <1>1 DEF IsStream, End, Input
<1>5. \A k \in 0 .. n : End(k) \in Nat
  BY <1>2 DEF End, EndOf
<1>6. \A k \in 0 .. n : End(k) <= Len(Input)
  <2> SUFFICES ASSUME NEW k \in 0 .. n PROVE End(k) <= Len(Input)
    OBVIOUS
  <2>1. CASE k = n
    BY <2>1, <1>2, <1>4
  <2>2. CASE k # n
    <3>1. k < n /\ n \in 0 .. n
      BY <2>2, <1>2
    <3>2. End(k) + 4 <= End(n)
      BY <3>1, <1>3
    <3> QED
      BY <3>2, <1>2, <1>4, <1>5
  <2> QED
    BY <2>1, <2>2
<1> QED
  BY <1>2, <1>3, <1>4, <1>5, <1>6 DEF Input

\* A marker in the input is the beginning or the end of an image.
LEMMA Markers ==
    ASSUME TypeOK, NEW i \in 1 .. Len(Input) - 1, Input[i] = FF
    PROVE  /\ Input[i + 1] = SOI =>
                \E k \in 1 .. Len(stream.ends) : i = End(k - 1) + 1
           /\ Input[i + 1] = EOI => \E k \in 1 .. Len(stream.ends) : i = End(k) - 1
<1>1. IsStream(stream)
  BY StreamsAssumption DEF TypeOK
<1>2. i \in 1 .. Len(stream.bytes) - 1
  BY DEF Input
<1>3. /\ MarkerAt(stream, i, SOI) =>
           \E k \in 1 .. Len(stream.ends) : i = EndOf(stream, k - 1) + 1
      /\ MarkerAt(stream, i, EOI) =>
           \E k \in 1 .. Len(stream.ends) : i = EndOf(stream, k) - 1
  BY <1>1, <1>2 DEF IsStream
<1>4. stream.bytes[i] = FF /\ stream.bytes[i + 1] = Input[i + 1]
  BY DEF Input
<1> QED
  BY <1>3, <1>4 DEF MarkerAt, End

\* An image begins and ends with its markers.
LEMMA ImageMarked ==
    ASSUME TypeOK, NEW k \in 1 .. Len(stream.ends)
    PROVE  /\ Input[End(k - 1) + 1] = FF /\ Input[End(k - 1) + 2] = SOI
           /\ Input[End(k) - 1] = FF /\ Input[End(k)] = EOI
<1>1. IsStream(stream)
  BY StreamsAssumption DEF TypeOK
<1>2. /\ End(k - 1) \in 0 .. Len(Input) /\ End(k) \in 0 .. Len(Input)
      /\ End(k - 1) + 4 <= End(k)
  <2>1. k - 1 \in 0 .. Len(stream.ends) /\ k \in 0 .. Len(stream.ends) /\ k - 1 < k
    BY StreamFacts
  <2> QED
    BY <2>1, StreamFacts
<1>3. /\ End(k - 1) + 1 \in 1 .. Len(stream.bytes) - 1
      /\ End(k) - 1 \in 1 .. Len(stream.bytes) - 1
  <2>1. Len(Input) \in Nat /\ Len(stream.bytes) = Len(Input)
    BY StreamFacts DEF Input
  <2> QED
    BY <2>1, <1>2
<1>4. MarkerAt(stream, End(k - 1) + 1, SOI)
  BY <1>1, <1>3 DEF IsStream, End
<1>5. MarkerAt(stream, End(k) - 1, EOI)
  BY <1>1, <1>3 DEF IsStream, End
<1>6. (End(k - 1) + 1) + 1 = End(k - 1) + 2 /\ (End(k) - 1) + 1 = End(k)
  BY <1>2
<1> QED
  BY <1>4, <1>5, <1>6 DEF MarkerAt, Input

-----------------------------------------------------------------------------
(* What the scan sees.                                                      *)

\* Where things are, in numbers.
LEMMA Places ==
    ASSUME InBounds, Undisturbed
    PROVE  /\ MAX \in Nat \ {0} /\ taken \in 0 .. Len(Input) /\ Len(Input) \in Nat
           /\ buf_ptr \in -1 .. MAX /\ j \in 0 .. MAX
           /\ phase = "scan" => j <= buf_ptr
           /\ start_of_frame \in -1 .. MAX - 1 /\ move_start \in -1 .. MAX + 1
           /\ Len(frames) \in Nat /\ Put \in Nat /\ Found \in 0 .. Len(stream.ends)
           /\ Put <= Found /\ Len(stream.ends) \in Nat
           /\ Dropped \in Nat /\ Dropped + buf_ptr = taken
           /\ Dropped <= End(Found) /\ End(Found) \in 0 .. Len(Input)
           /\ Found < Len(stream.ends) => End(Found + 1) \in End(Found) + 4 .. Len(Input)
<1>1. /\ MAX \in Nat \ {0} /\ taken \in 0 .. Len(Input) /\ Len(Input) \in Nat
      /\ buf_ptr \in -1 .. MAX /\ j \in 0 .. MAX
      /\ phase = "scan" => j <= buf_ptr
      /\ start_of_frame \in -1 .. MAX - 1 /\ move_start \in -1 .. MAX + 1
      /\ Len(frames) \in Nat /\ Len(stream.ends) \in Nat
  BY MAXAssumption, StreamFacts DEF InBounds, TypeOK, Bounds
<1>2. Put \in Nat /\ Found \in 0 .. Len(stream.ends) /\ Put <= Found
  BY <1>1 DEF Put, Found, Undisturbed, FoundInv
<1>3. End(Put) \in 0 .. Len(Input) /\ End(Found) \in 0 .. Len(Input) /\ End(Put) <= End(Found)
  <2>1. Put \in 0 .. Len(stream.ends)
    BY <1>1, <1>2
  <2>2. End(Put) \in 0 .. Len(Input) /\ End(Found) \in 0 .. Len(Input)
    BY <2>1, <1>2, StreamFacts DEF InBounds
  <2>3. Put < Found => End(Put) + 4 <= End(Found)
    BY <2>1, <1>2, StreamFacts DEF InBounds
  <2> QED
    BY <2>1, <2>2, <2>3, <1>1, <1>2
<1>4. Dropped \in Int /\ Dropped + buf_ptr = taken
  BY <1>1 DEF Dropped
<1>5. End(Put) = Dropped + (IF move_start = -1 THEN 0 ELSE move_start)
  BY DEF Undisturbed, BufferInv
<1>6. Dropped <= End(Found)
  BY <1>1, <1>3, <1>4, <1>5
<1>7. Dropped \in Nat
  BY <1>1, <1>4 DEF Undisturbed, BufferInv
<1>8. Found < Len(stream.ends) => End(Found + 1) \in End(Found) + 4 .. Len(Input)
  <2> SUFFICES ASSUME Found < Len(stream.ends)
               PROVE  End(Found + 1) \in End(Found) + 4 .. Len(Input)
    OBVIOUS
  <2>1. Found + 1 \in 0 .. Len(stream.ends) /\ Found < Found + 1
    BY <1>1, <1>2
  <2> QED
    BY <2>1, <1>1, <1>2, <1>3, StreamFacts DEF InBounds
<1> QED
  BY <1>1, <1>2, <1>3, <1>4, <1>6, <1>7, <1>8

LEMMA ScanPlaces ==
    ASSUME InBounds, Undisturbed, Scanning
    PROVE  /\ j \in 0 .. buf_ptr - 1 /\ j \in Nat /\ buf_ptr \in Int
           /\ Dropped \in Nat /\ Dropped + buf_ptr = taken
           /\ Len(stream.ends) \in Nat
           /\ taken \in 0 .. Len(Input) /\ Len(Input) \in Nat
           /\ Found \in 0 .. Len(stream.ends)
           /\ End(Found) \in 0 .. Len(Input) /\ Dropped <= End(Found)
           /\ Found < Len(stream.ends) => End(Found + 1) \in End(Found) + 4 .. Len(Input)
<1>1. MAX \in Nat /\ buf_ptr \in -1 .. MAX /\ j \in 0 .. MAX
  BY Places
<1>2. j < buf_ptr
  BY DEF Scanning
<1>3. j \in 0 .. buf_ptr - 1 /\ j \in Nat /\ buf_ptr \in Int
  BY <1>1, <1>2
<1> QED
  BY <1>3, Places

LEMMA ScanNumbers ==
    ASSUME InBounds, Undisturbed, Scanning
    PROVE  /\ j \in Nat /\ buf_ptr \in Int /\ Dropped \in Nat /\ Dropped + buf_ptr = taken
           /\ taken \in Nat /\ End(Found) \in Nat /\ j < buf_ptr
           /\ Found \in Nat /\ Len(stream.ends) \in Nat
<1>1. j < buf_ptr
  BY DEF Scanning
<1>2. taken \in Nat /\ End(Found) \in Nat /\ Found \in Nat
  <2>1. taken \in 0 .. Len(Input) /\ Len(Input) \in Nat /\ End(Found) \in 0 .. Len(Input)
    BY ScanPlaces
  <2>2. Found \in 0 .. Len(stream.ends) /\ Len(stream.ends) \in Nat
    BY ScanPlaces
  <2> QED
    BY <2>1, <2>2
<1> QED
  BY <1>1, <1>2, ScanPlaces

\* A byte the scan is at is the byte of the input at its place.
LEMMA ByteRead ==
    ASSUME InBounds, Undisturbed, NEW i \in 0 .. buf_ptr - 1
    PROVE  buf[i] = Input[Dropped + i + 1] /\ Dropped + i + 1 \in 1 .. taken
<1>1. buf[i] = Input[Dropped + i + 1]
  BY DEF Undisturbed, BufferInv
<1>2. /\ Dropped \in Nat /\ buf_ptr \in Int /\ taken \in Int
      /\ Dropped + buf_ptr = taken
  BY Places
<1>3. Dropped + i + 1 \in 1 .. taken
  BY <1>2
<1> QED
  BY <1>1, <1>3

\* A start marker that has been read begins the image to be found next.
LEMMA StartMarker ==
    ASSUME InBounds, Undisturbed, Scanning, j + 1 < buf_ptr, buf[j] = FF, buf[j + 1] = SOI
    PROVE  Dropped + j = End(Found)
<1>1. /\ j \in 0 .. buf_ptr - 1 /\ j + 1 \in 0 .. buf_ptr - 1
      /\ Dropped \in Nat /\ j \in Nat /\ Len(stream.ends) \in Nat
      /\ taken \in 0 .. Len(Input) /\ Len(Input) \in Nat /\ Dropped + buf_ptr = taken
      /\ Found \in 0 .. Len(stream.ends) /\ End(Found) \in 0 .. Len(Input) /\ buf_ptr \in Int
  BY ScanPlaces
<1> DEFINE p == Dropped + j + 1
<1>2. /\ p \in 1 .. Len(Input) - 1 /\ Input[p] = FF /\ Input[p + 1] = SOI
  <2>1. buf[j] = Input[p] /\ p \in 1 .. taken
    BY <1>1, ByteRead
  <2>2. buf[j + 1] = Input[Dropped + (j + 1) + 1] /\ Dropped + (j + 1) + 1 \in 1 .. taken
    BY <1>1, ByteRead
  <2>3. Dropped + (j + 1) + 1 = p + 1
    BY <1>1
  <2> QED
    BY <1>1, <2>1, <2>2, <2>3
<1>3. PICK k \in 1 .. Len(stream.ends) : p = End(k - 1) + 1
  BY <1>2, Markers DEF InBounds
<1>4. k - 1 \in 0 .. Len(stream.ends) /\ End(k - 1) \in Nat
  BY <1>1, StreamFacts DEF InBounds
<1>5. End(Found) <= p
  BY DEF Undisturbed, FoundInv
<1>6. Found <= k - 1
  <2> SUFFICES ASSUME k - 1 < Found PROVE FALSE
    BY <1>1, <1>4
  <2>1. End(k - 1) + 4 <= End(Found)
    BY <1>1, <1>4, StreamFacts DEF InBounds
  <2> QED
    BY <2>1, <1>1, <1>3, <1>4, <1>5
<1>7. Found >= k - 1
  <2> SUFFICES ASSUME Found < k - 1 PROVE FALSE
    BY <1>1, <1>4
  <2>1. Found + 1 \in 0 .. Len(stream.ends) /\ End(Found + 1) \in Nat
    <3>1. Found + 1 \in 0 .. Len(stream.ends)
      BY <1>1, <1>4
    <3> QED
      BY <3>1, StreamFacts DEF InBounds
  <2>2. End(Found + 1) > p
    BY <1>1, <1>4 DEF Undisturbed, FoundInv
  <2>3. End(Found + 1) <= End(k - 1)
    <3>1. Found + 1 < k - 1 => End(Found + 1) + 4 <= End(k - 1)
      BY <1>4, <2>1, StreamFacts DEF InBounds
    <3>2. Found + 1 = k - 1 \/ Found + 1 < k - 1
      BY <1>1, <1>4
    <3> QED
      BY <3>1, <3>2, <2>1, <1>4
  <2> QED
    BY <2>1, <2>2, <2>3, <1>3, <1>4
<1>8. Found = k - 1
  BY <1>1, <1>4, <1>6, <1>7
<1>9. End(Found) = End(k - 1)
  BY <1>8
<1> QED
  BY <1>1, <1>3, <1>4, <1>9

\* Where both its bytes are the input's, an end marker ends the image to be found next.
LEMMA EndMarker ==
    ASSUME InBounds, Undisturbed, Scanning, buf[j] = FF,
           Dropped + j + 2 <= Len(Input), Input[Dropped + j + 2] = EOI
    PROVE  Found < Len(stream.ends) /\ End(Found + 1) = Dropped + j + 2
<1>1. /\ j \in 0 .. buf_ptr - 1
      /\ Dropped \in Nat /\ j \in Nat /\ Len(stream.ends) \in Nat
      /\ taken \in 0 .. Len(Input) /\ Len(Input) \in Nat /\ Dropped + buf_ptr = taken
      /\ Found \in 0 .. Len(stream.ends) /\ End(Found) \in 0 .. Len(Input) /\ buf_ptr \in Int
  BY ScanPlaces
<1> DEFINE p == Dropped + j + 1
<1>2. /\ p \in 1 .. Len(Input) - 1 /\ Input[p] = FF /\ Input[p + 1] = EOI
  <2>1. buf[j] = Input[p] /\ p \in 1 .. taken
    BY <1>1, ByteRead
  <2>2. p + 1 = Dropped + j + 2
    BY <1>1
  <2> QED
    BY <1>1, <2>1, <2>2
<1>3. PICK k \in 1 .. Len(stream.ends) : p = End(k) - 1
  BY <1>2, Markers DEF InBounds
<1>4. k \in 0 .. Len(stream.ends) /\ End(k) \in Nat
  BY <1>1, StreamFacts DEF InBounds
<1>5. End(Found) <= p
  BY DEF Undisturbed, FoundInv
<1>6. Found < k
  <2> SUFFICES ASSUME k <= Found PROVE FALSE
    BY <1>1, <1>4
  <2>1. k < Found => End(k) + 4 <= End(Found)
    BY <1>1, <1>4, StreamFacts DEF InBounds
  <2>2. k = Found \/ k < Found
    BY <1>1, <1>4
  <2> QED
    BY <2>1, <2>2, <1>1, <1>3, <1>4, <1>5
<1>7. Found + 1 \in 0 .. Len(stream.ends) /\ End(Found + 1) \in Nat
  BY <1>1, <1>4, <1>6, StreamFacts DEF InBounds
<1>8. End(Found + 1) > p
  BY <1>1, <1>4, <1>6 DEF Undisturbed, FoundInv
<1>9. ~(Found + 1 < k)
  <2> SUFFICES ASSUME Found + 1 < k PROVE FALSE
    OBVIOUS
  <2>1. End(Found + 1) + 4 <= End(k)
    BY <1>4, <1>7, StreamFacts DEF InBounds
  <2> QED
    BY <2>1, <1>1, <1>3, <1>4, <1>7, <1>8
<1>10. Found + 1 = k
  BY <1>1, <1>4, <1>6, <1>9
<1>11. End(Found + 1) = End(k)
  BY <1>10
<1> QED
  BY <1>1, <1>3, <1>4, <1>6, <1>11

\* The end of the next image is not passed over: the scan has its start in mind.
LEMMA EndSeen ==
    ASSUME InBounds, Undisturbed, Scanning, Found < Len(stream.ends),
           End(Found + 1) = Dropped + j + 2
    PROVE  /\ start_of_frame = End(Found) - Dropped /\ start_of_frame # -1
           /\ buf[j] = FF
           /\ j + 1 < buf_ptr => buf[j + 1] = EOI
<1>1. /\ j \in 0 .. buf_ptr - 1
      /\ Dropped \in Nat /\ j \in Nat /\ Len(stream.ends) \in Nat
      /\ taken \in 0 .. Len(Input) /\ Len(Input) \in Nat /\ Dropped + buf_ptr = taken
      /\ Found \in 0 .. Len(stream.ends) /\ End(Found) \in 0 .. Len(Input) /\ buf_ptr \in Int
      /\ End(Found + 1) \in End(Found) + 4 .. Len(Input) /\ Dropped <= End(Found)
  BY ScanPlaces
<1>2. Dropped + j > End(Found)
  BY <1>1
<1>3. start_of_frame = End(Found) - Dropped
  BY <1>2 DEF Undisturbed, StartInv
<1>4. start_of_frame # -1
  BY <1>1, <1>3
<1>5. Found + 1 \in 1 .. Len(stream.ends)
  BY <1>1
<1>6. Input[End(Found + 1) - 1] = FF /\ Input[End(Found + 1)] = EOI
  BY <1>5, ImageMarked DEF InBounds
<1>7. Input[Dropped + j + 1] = FF /\ Input[Dropped + j + 2] = EOI
  <2>1. End(Found + 1) - 1 = Dropped + j + 1
    BY <1>1
  <2> QED
    BY <2>1, <1>6
<1>8. buf[j] = FF
  BY <1>1, <1>7, ByteRead
<1>9. ASSUME j + 1 < buf_ptr PROVE buf[j + 1] = EOI
  <2>1. j + 1 \in 0 .. buf_ptr - 1
    BY <1>1, <1>9
  <2>2. buf[j + 1] = Input[Dropped + (j + 1) + 1]
    BY <2>1, ByteRead
  <2>3. Dropped + (j + 1) + 1 = Dropped + j + 2
    BY <1>1
  <2> QED
    BY <2>2, <2>3, <1>7
<1> QED
  BY <1>3, <1>4, <1>8, <1>9

\* What is copied out at the end of an image is the image.
LEMMA ImageWhole ==
    ASSUME InBounds, Undisturbed, Scanning, Found < Len(stream.ends),
           End(Found + 1) = Dropped + j + 2, buf[j + 1] = EOI
    PROVE  Image = Pictures[Found + 1]
<1> DEFINE a == End(Found)
           e == End(Found + 1)
           n == e - a
           s == start_of_frame
           d == Dropped
           p == SubSeq(Input, a + 1, e)
<1>1. /\ j \in Nat /\ buf_ptr \in Int /\ j < buf_ptr /\ d \in Nat
      /\ a \in Nat /\ d <= a /\ e \in Nat /\ a + 4 <= e /\ e <= Len(Input) /\ Len(Input) \in Nat
  <2>1. /\ j \in Nat /\ j \in 0 .. buf_ptr - 1 /\ buf_ptr \in Int /\ d \in Nat
        /\ End(Found) \in 0 .. Len(Input) /\ d <= a /\ Len(Input) \in Nat
        /\ e \in End(Found) + 4 .. Len(Input)
    BY ScanPlaces
  <2> QED
    BY <2>1
<1>2. s = a - d /\ e = d + j + 2
  BY EndSeen
<1>3. Pictures[Found + 1] = p
  <2>a. Found \in Nat /\ Len(stream.ends) \in Nat
    BY ScanNumbers
  <2>1. Found + 1 \in 1 .. Len(stream.ends) /\ (Found + 1) - 1 = Found
    BY <2>a
  <2>2. Pictures[Found + 1] = SubSeq(Input, End((Found + 1) - 1) + 1, e)
    BY <2>1 DEF Pictures
  <2> QED
    BY <2>1, <2>2
<1>4. Input[e] = EOI
  <2>1. Found + 1 \in 1 .. Len(stream.ends)
    BY ScanNumbers
  <2> QED
    BY <2>1, ImageMarked DEF InBounds
<1>5. Image = [i \in 1 .. j + 2 - s |-> buf[s + i - 1]]
  BY DEF Image
<1>6. \A i \in 0 .. buf_ptr - 1 : buf[i] = Input[d + i + 1]
  BY DEF Undisturbed, BufferInv
<1>7. Input \in Seq(Byte)
  BY StreamFacts DEF InBounds
<1> HIDE DEF a, e, s, d
<1>8. n \in Nat /\ j + 2 - s = n /\ s \in Nat
  BY <1>1, <1>2
<1>9. /\ p \in Seq(Byte) /\ Len(p) = n
      /\ \A i \in 1 .. n : p[i] = Input[a + i]
  <2>1. a + 1 \in Int /\ e \in Int /\ a + 1 <= e /\ e - (a + 1) + 1 = n
    BY <1>1
  <2>2. \A i \in (a + 1) .. e : Input[i] \in Byte
    <3>1. \A i \in (a + 1) .. e : i \in 1 .. Len(Input)
      BY <1>1
    <3> QED
      BY <3>1, <1>7
  <2>3. \A i \in 1 .. n : (a + 1) + i - 1 = a + i
    BY <1>1
  <2> HIDE DEF n
  <2>4. /\ p \in Seq(Byte) /\ Len(p) = n
        /\ \A i \in 1 .. n : p[i] = Input[(a + 1) + i - 1]
    BY <2>1, <2>2, SubSeqProperties
  <2> HIDE DEF p
  <2> QED
    BY <2>3, <2>4
<1> HIDE DEF n, p
<1>10. p = [i \in 1 .. n |-> p[i]]
  BY <1>8, <1>9
<1>11. ASSUME NEW i \in 1 .. n
       PROVE  buf[s + i - 1] = Input[a + i]
  <2>1. i \in Int /\ 1 <= i /\ i <= n
    BY <1>8
  <2>2. CASE s + i - 1 < buf_ptr
    <3>1. s + i - 1 \in 0 .. buf_ptr - 1
      BY <2>1, <2>2, <1>1, <1>8
    <3>2. d + (s + i - 1) + 1 = a + i
      BY <2>1, <1>1, <1>2, <1>8
    <3> QED
      BY <3>1, <3>2, <1>6
  <2>3. CASE ~(s + i - 1 < buf_ptr)
    <3>1. s + i - 1 = j + 1
      BY <2>1, <2>3, <1>1, <1>8
    <3>2. a + i = e
      BY <2>1, <3>1, <1>1, <1>2, <1>8
    <3> QED
      BY <3>1, <3>2, <1>4
  <2> QED
    BY <2>2, <2>3
<1>12. Image = [i \in 1 .. n |-> buf[s + i - 1]]
  BY <1>5, <1>8
<1>13. \A i \in 1 .. n : buf[s + i - 1] = p[i]
  BY <1>9, <1>11
<1> QED
  BY <1>3, <1>10, <1>12, <1>13

-----------------------------------------------------------------------------
(* The steps, as long as nothing goes wrong.                                *)

\* What a step leaves as it is that concerns neither fields nor frames.
LEMMA Kept ==
    ASSUME UNCHANGED <<start, dominant_field, frame_buf, frames>>
    PROVE  /\ Put' = Put /\ Found' = Found
           /\ End(Put)' = End(Put) /\ End(Found)' = End(Found) /\ End(Found + 1)' = End(Found + 1)
           /\ Len(stream.ends)' = Len(stream.ends) /\ Input' = Input
           /\ interlaced' = interlaced /\ Pictures' = Pictures /\ Frames' = Frames
<1>1. stream' = stream /\ options' = options /\ dominant_field' = dominant_field /\ frames' = frames
  BY DEF start
<1>2. interlaced' = interlaced /\ Input' = Input
  BY <1>1 DEF interlaced, Input
<1>3. Put' = Put /\ Found' = Found
  BY <1>1, <1>2 DEF Put, Found
<1>4. Pictures' = Pictures
  BY <1>1, <1>2 DEF Pictures, End
<1>5. Frames' = Frames
  BY <1>1, <1>2, <1>4 DEF Frames, NewFrame
<1> QED
  BY <1>1, <1>2, <1>3, <1>4, <1>5 DEF End

\* The frames and the header stay right, whatever else happens.
LEMMA FramesKept ==
    ASSUME Undisturbed, UNCHANGED <<start, dominant_field, frame_buf, frames>>,
           phase' = "ended" => taken' = Len(Input),
           phase' # "scan" => dominant_field
    PROVE  FieldInv' /\ FramesInv'
<1>1. FieldInv'
  <2>1. ~dominant_field' => phase' = "scan"
    OBVIOUS
  <2>2. options' = options /\ frame_buf' = frame_buf
    BY DEF start
  <2> QED
    BY <2>1, <2>2, Kept DEF Undisturbed, FieldInv
<1>2. FramesInv'
  BY Kept DEF Undisturbed, FramesInv
<1> QED
  BY <1>1, <1>2

LEMMA Half == \A n \in Nat : n \div 2 \in Nat /\ \A k \in Nat : k <= n \div 2 <=> 2 * k <= n
  OBVIOUS

LEMMA FramesSize ==
    ASSUME TypeOK
    PROVE  /\ Len(Frames) \in Nat
           /\ interlaced => Len(Frames) = Len(stream.ends) \div 2
           /\ ~interlaced => Len(Frames) = Len(stream.ends)
           /\ \A k \in 1 .. Len(Frames) :
                Frames[k] = IF interlaced
                            THEN [NewFrame EXCEPT !.f1 = Pictures[2 * k - 1], !.f2 = Pictures[2 * k]]
                            ELSE [NewFrame EXCEPT !.f1 = Pictures[k]]
<1> DEFINE n == Len(stream.ends)
<1>1. n \in Nat
  BY StreamFacts
<1>2. Len(Pictures) = n
  BY <1>1 DEF Pictures
<1>3. CASE interlaced
  <2> DEFINE m == n \div 2
             F(k) == [NewFrame EXCEPT !.f1 = Pictures[2 * k - 1], !.f2 = Pictures[2 * k]]
  <2>1. m \in Nat
    BY <1>1, Half
  <2>2. Frames = [k \in 1 .. m |-> F(k)]
    BY <1>2, <1>3 DEF Frames
  <2> HIDE DEF m, F
  <2>3. Len(Frames) = m /\ \A k \in 1 .. m : Frames[k] = F(k)
    BY <2>1, <2>2
  <2> QED
    BY <1>3, <2>1, <2>3 DEF m, F
<1>4. CASE ~interlaced
  <2>1. Frames = [k \in 1 .. n |-> [NewFrame EXCEPT !.f1 = Pictures[k]]]
    BY <1>2, <1>4 DEF Frames
  <2> HIDE DEF n
  <2>2. Len(Frames) = n
    BY <1>1, <2>1
  <2> QED
    BY <1>1, <1>4, <2>1, <2>2 DEF n
<1> QED
  BY <1>3, <1>4

LEMMA InitUndisturbed == Init => Undisturbed
<1> SUFFICES ASSUME Init PROVE Undisturbed
  OBVIOUS
<1>1. TypeOK
  BY InitInBounds DEF InBounds
<1>2. Put = 0 /\ Found = 0 /\ Dropped = 0 /\ End(0) = 0
  BY DEF Init, Put, Found, Dropped, End, EndOf
<1>3. BufferInv
  BY <1>2 DEF Init, BufferInv
<1>4. Len(stream.ends) \in Nat
  BY <1>1, StreamFacts
<1>5. 0 < Len(stream.ends) => End(1) >= 4 /\ End(1) \in Nat
  <2> SUFFICES ASSUME 0 < Len(stream.ends) PROVE End(1) >= 4 /\ End(1) \in Nat
    OBVIOUS
  <2>1. 0 \in 0 .. Len(stream.ends) /\ 1 \in 0 .. Len(stream.ends) /\ 0 < 1
    BY <1>4
  <2>2. End(0) + 4 <= End(1) /\ End(1) \in 0 .. Len(Input) /\ Len(Input) \in Nat
    BY <1>1, <2>1, StreamFacts
  <2> QED
    BY <1>2, <2>2
<1>6. FoundInv
  <2>1. 0 + 1 = 1 /\ ~Scanning
    BY DEF Init, Scanning
  <2> QED
    BY <1>2, <1>4, <1>5, <2>1 DEF Init, FoundInv
<1>7. StartInv
  BY DEF Init, StartInv, Scanning
<1>8. FieldInv
  BY DEF Init, FieldInv, NewFrame
<1>9. FramesInv
  <2>1. Len(Frames) \in Nat
    BY <1>1, FramesSize
  <2> QED
    BY <2>1 DEF Init, FramesInv
<1> QED
  BY <1>3, <1>6, <1>7, <1>8, <1>9 DEF Undisturbed

LEMMA ReadCalm ==
    ASSUME InBounds, Undisturbed, Read
    PROVE  Undisturbed'
<1>1. PICK n \in 1 .. MAX - buf_ptr :
        /\ taken + n <= Len(Input)
        /\ taken' = taken + n
        /\ buf_ptr' = buf_ptr + n
        /\ buf' = [i \in -1 .. MAX |-> IF i \in buf_ptr .. buf_ptr + n - 1
                                       THEN Input[taken + 1 + (i - buf_ptr)]
                                       ELSE buf[i]]
  BY DEF Read
<1>2. /\ phase = "read" /\ phase' = "scan" /\ j' = 0
      /\ UNCHANGED <<start, move_start, start_of_frame, dominant_field, frame_buf, frames>>
  BY DEF Read, marks
<1>3. /\ Put' = Put /\ Found' = Found
      /\ End(Put)' = End(Put) /\ End(Found)' = End(Found) /\ End(Found + 1)' = End(Found + 1)
      /\ Len(stream.ends)' = Len(stream.ends) /\ Input' = Input
  BY <1>2, Kept
<1>4. /\ n \in Nat \ {0} /\ buf_ptr \in -1 .. MAX /\ taken \in Nat /\ MAX \in Nat
      /\ Dropped \in Nat /\ Dropped + buf_ptr = taken
  BY Places
<1>5. Dropped' = Dropped
  BY <1>1, <1>4 DEF Dropped
<1>6. dominant_field /\ move_start = -1
  BY <1>2 DEF Undisturbed, FieldInv, BufferInv
<1>7. Found = Put /\ End(Put) = Dropped
  BY <1>4, <1>6 DEF Found, Undisturbed, BufferInv
<1>8. BufferInv'
  <2>1. buf_ptr' <= taken'
    BY <1>1, <1>4
  <2>2. ASSUME NEW i \in 0 .. buf_ptr + n - 1
        PROVE  buf'[i] = Input[Dropped + i + 1]
    <3>1. i \in -1 .. MAX
      BY <1>4
    <3>2. CASE i \in buf_ptr .. buf_ptr + n - 1
      <4>1. buf'[i] = Input[taken + 1 + (i - buf_ptr)]
        BY <1>1, <3>1, <3>2
      <4>2. taken + 1 + (i - buf_ptr) = Dropped + i + 1
        BY <1>4
      <4> QED
        BY <4>1, <4>2
    <3>3. CASE i \notin buf_ptr .. buf_ptr + n - 1
      <4>1. buf'[i] = buf[i]
        BY <1>1, <3>1, <3>3
      <4>2. i \in 0 .. buf_ptr - 1
        BY <1>4, <3>3
      <4> QED
        BY <4>1, <4>2, ByteRead
    <3> QED
      BY <3>2, <3>3
  <2>3. \A i \in 0 .. buf_ptr' - 1 : buf'[i] = Input'[Dropped' + i + 1]
    <3>1. buf_ptr' - 1 = buf_ptr + n - 1
      BY <1>1, <1>4
    <3> QED
      BY <3>1, <2>2, <1>3, <1>5
  <2>4. End(Put)' = Dropped' + (IF move_start' = -1 THEN 0 ELSE move_start')
    BY <1>2, <1>3, <1>4, <1>5, <1>6, <1>7
  <2> QED
    BY <2>1, <2>3, <2>4, <1>2 DEF BufferInv
<1>9. FoundInv'
  <2>1. Found \in 0 .. Len(stream.ends)
    BY Places
  <2>2. Found < Len(stream.ends) => End(Found + 1) >= Dropped + 4 /\ End(Found + 1) \in Nat
    <3>1. /\ Found < Len(stream.ends) => End(Found + 1) \in End(Found) + 4 .. Len(Input)
          /\ Len(Input) \in Nat
      BY Places
    <3> QED
      BY <3>1, <1>4, <1>7
  <2>3. Scanning' <=> 0 < buf_ptr'
    BY <1>2 DEF Scanning
  <2>4. End(Found)' <= taken' + 1
    BY <1>1, <1>3, <1>4, <1>7
  <2>5. End(Found)' <= Dropped' + j' + 1
    BY <1>2, <1>3, <1>4, <1>5, <1>7
  <2>6. ASSUME Found < Len(stream.ends)
        PROVE  End(Found + 1) > (IF Scanning' THEN Dropped' + j' + 1 ELSE taken')
    <3>1. CASE 0 < buf_ptr'
      BY <2>2, <2>3, <2>6, <3>1, <1>2, <1>4, <1>5
    <3>2. CASE ~(0 < buf_ptr')
      <4>1. taken' <= Dropped
        BY <3>2, <1>1, <1>4
      <4> QED
        BY <4>1, <2>2, <2>3, <2>6, <3>2, <1>1, <1>4
    <3> QED
      BY <3>1, <3>2
  <2> QED
    BY <2>1, <2>4, <2>5, <2>6, <1>3 DEF FoundInv
<1>10. StartInv'
  BY <1>2, <1>3, <1>4, <1>5, <1>7 DEF StartInv
<1>11. FieldInv' /\ FramesInv'
  BY <1>2, FramesKept
<1> QED
  BY <1>8, <1>9, <1>10, <1>11 DEF Undisturbed

LEMMA EndOfInputCalm ==
    ASSUME InBounds, Undisturbed, EndOfInput, upset' = {}
    PROVE  Undisturbed'
<1>1. /\ phase = "read" /\ phase' = "ended"
      /\ UNCHANGED <<start, move_start, start_of_frame, dominant_field, frame_buf, frames>>
      /\ UNCHANGED <<taken, buf, buf_ptr, j>>
  BY DEF EndOfInput, buffer, marks
<1>2. /\ Put' = Put /\ Found' = Found
      /\ End(Put)' = End(Put) /\ End(Found)' = End(Found) /\ End(Found + 1)' = End(Found + 1)
      /\ Len(stream.ends)' = Len(stream.ends) /\ Input' = Input
  BY <1>1, Kept
<1>3. Dropped' = Dropped /\ ~Scanning /\ ~Scanning'
  BY <1>1 DEF Dropped, Scanning
<1>4. taken' = Len(Input)
  <2>1. ~(taken < Len(Input))
    BY DEF EndOfInput
  <2>2. taken \in 0 .. Len(Input) /\ Len(Input) \in Nat
    BY Places
  <2> QED
    BY <2>1, <2>2, <1>1
<1>5. BufferInv'
  BY <1>1, <1>2, <1>3 DEF Undisturbed, BufferInv
<1>6. FoundInv' /\ StartInv'
  BY <1>1, <1>2, <1>3 DEF Undisturbed, FoundInv, StartInv
<1>7. FieldInv' /\ FramesInv'
  <2>1. dominant_field
    BY <1>1 DEF Undisturbed, FieldInv
  <2> QED
    BY <2>1, <1>1, <1>4, FramesKept
<1> QED
  BY <1>5, <1>6, <1>7 DEF Undisturbed

LEMMA ReadFailsCalm ==
    ASSUME InBounds, Undisturbed, ReadFails
    PROVE  Undisturbed'
<1>1. /\ phase = "read" /\ phase' = "failed"
      /\ UNCHANGED <<start, move_start, start_of_frame, dominant_field, frame_buf, frames>>
      /\ UNCHANGED <<taken, buf, buf_ptr, j>>
  BY DEF ReadFails, buffer, marks
<1>2. /\ Put' = Put /\ Found' = Found
      /\ End(Put)' = End(Put) /\ End(Found)' = End(Found) /\ End(Found + 1)' = End(Found + 1)
      /\ Len(stream.ends)' = Len(stream.ends) /\ Input' = Input
  BY <1>1, Kept
<1>3. Dropped' = Dropped /\ ~Scanning /\ ~Scanning'
  BY <1>1 DEF Dropped, Scanning
<1>4. BufferInv'
  BY <1>1, <1>2, <1>3 DEF Undisturbed, BufferInv
<1>5. FoundInv' /\ StartInv'
  BY <1>1, <1>2, <1>3 DEF Undisturbed, FoundInv, StartInv
<1>6. FieldInv' /\ FramesInv'
  <2>1. dominant_field
    BY <1>1 DEF Undisturbed, FieldInv
  <2> QED
    BY <2>1, <1>1, FramesKept
<1> QED
  BY <1>4, <1>5, <1>6 DEF Undisturbed

LEMMA ScanDoneCalm ==
    ASSUME InBounds, Undisturbed, ScanDone, upset' = {}
    PROVE  Undisturbed'
<1>1. /\ phase = "scan" /\ phase' = "move" /\ ~(j < buf_ptr)
      /\ UNCHANGED <<start, move_start, start_of_frame, dominant_field, frame_buf, frames>>
      /\ UNCHANGED <<taken, buf, buf_ptr, j>>
  <2>1. buf_ptr \in Int /\ j \in Int
    BY Places
  <2> QED
    BY <2>1 DEF ScanDone, buffer, marks
<1>2. /\ Put' = Put /\ Found' = Found
      /\ End(Put)' = End(Put) /\ End(Found)' = End(Found) /\ End(Found + 1)' = End(Found + 1)
      /\ Len(stream.ends)' = Len(stream.ends) /\ Input' = Input
  BY <1>1, Kept
<1>3. Dropped' = Dropped /\ ~Scanning /\ ~Scanning'
  BY <1>1 DEF Dropped, Scanning
<1>4. dominant_field
  BY DEF ScanDone
<1>5. BufferInv'
  BY <1>1, <1>2, <1>3 DEF Undisturbed, BufferInv
<1>6. FoundInv' /\ StartInv'
  BY <1>1, <1>2, <1>3 DEF Undisturbed, FoundInv, StartInv
<1>7. FieldInv' /\ FramesInv'
  BY <1>1, <1>4, FramesKept
<1> QED
  BY <1>5, <1>6, <1>7 DEF Undisturbed

LEMMA MoveNoneCalm ==
    ASSUME InBounds, Undisturbed, MoveNone
    PROVE  Undisturbed'
<1>1. /\ phase = "move" /\ phase' = "read" /\ move_start = -1
      /\ UNCHANGED <<start, move_start, start_of_frame, dominant_field, frame_buf, frames>>
      /\ UNCHANGED <<taken, buf, buf_ptr, j>>
  BY DEF MoveNone, buffer, marks
<1>2. /\ Put' = Put /\ Found' = Found
      /\ End(Put)' = End(Put) /\ End(Found)' = End(Found) /\ End(Found + 1)' = End(Found + 1)
      /\ Len(stream.ends)' = Len(stream.ends) /\ Input' = Input
  BY <1>1, Kept
<1>3. Dropped' = Dropped /\ ~Scanning /\ ~Scanning'
  BY <1>1 DEF Dropped, Scanning
<1>4. BufferInv'
  BY <1>1, <1>2, <1>3 DEF Undisturbed, BufferInv
<1>5. FoundInv' /\ StartInv'
  BY <1>1, <1>2, <1>3 DEF Undisturbed, FoundInv, StartInv
<1>6. FieldInv' /\ FramesInv'
  <2>1. dominant_field
    BY <1>1 DEF Undisturbed, FieldInv
  <2> QED
    BY <2>1, <1>1, FramesKept
<1> QED
  BY <1>4, <1>5, <1>6 DEF Undisturbed

LEMMA MoveCalm ==
    ASSUME InBounds, Undisturbed, Move
    PROVE  Undisturbed'
<1>1. /\ phase = "move" /\ phase' = "read"
      /\ move_start # -1 /\ move_start < MAX /\ move_start' = -1
      /\ buf_ptr' = buf_ptr - move_start
      /\ UNCHANGED <<start, start_of_frame, dominant_field, frame_buf, frames, taken, j>>
      /\ buf' = [i \in -1 .. MAX |-> IF i \in 0 .. MAX - move_start - 1
                                     THEN buf[i + move_start] ELSE buf[i]]
  BY DEF Move
<1>2. /\ Put' = Put /\ Found' = Found
      /\ End(Put)' = End(Put) /\ End(Found)' = End(Found) /\ End(Found + 1)' = End(Found + 1)
      /\ Len(stream.ends)' = Len(stream.ends) /\ Input' = Input
  BY <1>1, Kept
<1>3. /\ MAX \in Nat /\ move_start \in -1 .. MAX + 1 /\ buf_ptr \in -1 .. MAX
      /\ taken \in Int /\ Dropped \in Nat /\ Dropped + buf_ptr = taken
  BY Places
<1>4. move_start \in 0 .. MAX - 1
  BY <1>1, <1>3
<1>5. Dropped' = Dropped + move_start
  BY <1>1, <1>3, <1>4 DEF Dropped
<1>6. ~Scanning /\ ~Scanning'
  BY <1>1 DEF Scanning
<1>7. BufferInv'
  <2>1. buf_ptr' <= taken'
    BY <1>1, <1>3, <1>4
  <2>2. ASSUME NEW i \in 0 .. buf_ptr - move_start - 1
        PROVE  buf'[i] = Input[(Dropped + move_start) + i + 1]
    <3>1. i \in -1 .. MAX /\ i \in 0 .. MAX - move_start - 1 /\ i + move_start \in 0 .. buf_ptr - 1
      BY <1>3, <1>4
    <3>2. buf'[i] = buf[i + move_start]
      BY <1>1, <3>1
    <3>3. buf[i + move_start] = Input[Dropped + (i + move_start) + 1]
      BY <3>1, ByteRead
    <3>4. Dropped + (i + move_start) + 1 = (Dropped + move_start) + i + 1
      BY <1>3, <1>4
    <3> QED
      BY <3>2, <3>3, <3>4
  <2>3. \A i \in 0 .. buf_ptr' - 1 : buf'[i] = Input'[Dropped' + i + 1]
    BY <2>2, <1>1, <1>2, <1>5
  <2>4. End(Put)' = Dropped' + 0
    <3>1. End(Put) = Dropped + move_start
      BY <1>1 DEF Undisturbed, BufferInv
    <3> QED
      BY <3>1, <1>2, <1>3, <1>4, <1>5
  <2>5. End(Put)' = Dropped' + (IF move_start' = -1 THEN 0 ELSE move_start')
    BY <2>4, <1>1
  <2> QED
    BY <2>1, <2>3, <2>5, <1>1 DEF BufferInv
<1>8. FoundInv' /\ StartInv'
  BY <1>1, <1>2, <1>6 DEF Undisturbed, FoundInv, StartInv
<1>9. FieldInv' /\ FramesInv'
  <2>1. dominant_field
    BY <1>1 DEF Undisturbed, FieldInv
  <2> QED
    BY <2>1, <1>1, FramesKept
<1> QED
  BY <1>7, <1>8, <1>9 DEF Undisturbed

\* The scan goes on past a place where no image ends.
LEMMA PassedCalm ==
    ASSUME InBounds, Undisturbed, Scanning, phase' = "scan", j' = j + 1,
           UNCHANGED <<start, buffer, move_start, dominant_field, frame_buf, frames>>,
           Found < Len(stream.ends) /\ j + 1 < buf_ptr => End(Found + 1) # Dropped + j + 2,
           j + 1 < buf_ptr /\ Dropped + j + 1 > End(Found)
               => start_of_frame' = End(Found) - Dropped
    PROVE  Undisturbed'
<1>1. /\ Put' = Put /\ Found' = Found
      /\ End(Put)' = End(Put) /\ End(Found)' = End(Found) /\ End(Found + 1)' = End(Found + 1)
      /\ Len(stream.ends)' = Len(stream.ends) /\ Input' = Input
  BY Kept
<1>2. taken' = taken /\ buf' = buf /\ buf_ptr' = buf_ptr /\ Dropped' = Dropped
  BY DEF buffer, Dropped
<1>3. BufferInv'
  BY <1>1, <1>2 DEF Undisturbed, BufferInv
<1>4. /\ j \in Nat /\ buf_ptr \in Int /\ Dropped \in Nat /\ Dropped + buf_ptr = taken
      /\ taken \in Nat /\ End(Found) \in Nat /\ j < buf_ptr
      /\ Found \in Nat /\ Len(stream.ends) \in Nat
  BY ScanNumbers
<1>5. Scanning' <=> j + 1 < buf_ptr
  BY <1>2 DEF Scanning
<1>6. FoundInv'
  <2>1. /\ Found <= Len(stream.ends) /\ End(Found) <= taken + 1 /\ End(Found) <= Dropped + j + 1
        /\ Found < Len(stream.ends) => End(Found + 1) > Dropped + j + 1
    BY DEF Undisturbed, FoundInv
  <2>2. Found < Len(stream.ends) => End(Found + 1) \in Nat
    <3>1. Len(Input) \in Nat
      BY Places
    <3>2. Found < Len(stream.ends) => End(Found + 1) \in End(Found) + 4 .. Len(Input)
      BY Places
    <3> QED
      BY <3>1, <3>2, <1>4
  <2>3. End(Found)' <= Dropped' + j' + 1
    BY <2>1, <1>1, <1>2, <1>4
  <2>4. ASSUME Found < Len(stream.ends)
        PROVE  End(Found + 1) > IF Scanning' THEN Dropped' + j' + 1 ELSE taken'
    <3>1. CASE j + 1 < buf_ptr
      <4>1. End(Found + 1) # Dropped + j + 2
        BY <2>4, <3>1
      <4>2. Dropped' + j' + 1 = Dropped + j + 2
        BY <1>2, <1>4
      <4> QED
        BY <4>1, <4>2, <2>1, <2>2, <2>4, <3>1, <1>4, <1>5
    <3>2. CASE ~(j + 1 < buf_ptr)
      <4>1. taken = Dropped + j + 1
        BY <3>2, <1>4
      <4> QED
        BY <4>1, <3>2, <2>1, <2>4, <1>2, <1>5
    <3> QED
      BY <3>1, <3>2
  <2> QED
    BY <2>1, <2>3, <2>4, <1>1, <1>2 DEF FoundInv
<1>7. StartInv'
  <2>1. Dropped' + j' = Dropped + j + 1
    BY <1>2, <1>4
  <2> QED
    BY <2>1, <1>1, <1>2, <1>5 DEF StartInv
<1>8. FieldInv' /\ FramesInv'
  BY FramesKept
<1> QED
  BY <1>3, <1>6, <1>7, <1>8 DEF Undisturbed

LEMMA ScanStartCalm ==
    ASSUME InBounds, Undisturbed, ScanStart
    PROVE  Undisturbed'
<1>1. /\ Scanning /\ phase' = "scan" /\ j' = j + 1 /\ start_of_frame' = j
      /\ buf[j] = FF /\ buf[j + 1] = SOI
      /\ UNCHANGED <<start, buffer, move_start, dominant_field, frame_buf, frames>>
  BY DEF ScanStart, At, Scanning
<1>2. ASSUME j + 1 < buf_ptr PROVE Dropped + j = End(Found)
  BY <1>1, <1>2, StartMarker
<1>3. /\ j \in Nat /\ Dropped \in Nat /\ End(Found) \in Nat
      /\ Found < Len(stream.ends) => End(Found + 1) \in End(Found) + 4 .. Len(Input)
      /\ Len(Input) \in Nat
  BY <1>1, ScanPlaces
<1>4. Found < Len(stream.ends) /\ j + 1 < buf_ptr => End(Found + 1) # Dropped + j + 2
  BY <1>2, <1>3
<1>5. j + 1 < buf_ptr => start_of_frame' = End(Found) - Dropped
  BY <1>1, <1>2, <1>3
<1> QED
  BY <1>1, <1>4, <1>5, PassedCalm

LEMMA ScanOtherCalm ==
    ASSUME InBounds, Undisturbed, ScanOther
    PROVE  Undisturbed'
<1>1. /\ Scanning /\ phase' = "scan" /\ j' = j + 1 /\ start_of_frame' = start_of_frame
      /\ ~(buf[j] = FF /\ buf[j + 1] = SOI)
      /\ ~(buf[j] = FF /\ buf[j + 1] = EOI /\ start_of_frame # -1)
      /\ UNCHANGED <<start, buffer, move_start, dominant_field, frame_buf, frames>>
  BY DEF ScanOther, marks, Scanning
<1>2. /\ j \in 0 .. buf_ptr - 1 /\ j \in Nat /\ buf_ptr \in Int
      /\ Dropped \in Nat /\ Dropped + buf_ptr = taken
      /\ Len(stream.ends) \in Nat /\ taken \in 0 .. Len(Input) /\ Len(Input) \in Nat
      /\ Found \in 0 .. Len(stream.ends) /\ End(Found) \in 0 .. Len(Input)
  BY <1>1, ScanPlaces
<1>3. ASSUME Found < Len(stream.ends), j + 1 < buf_ptr
      PROVE  End(Found + 1) # Dropped + j + 2
  BY <1>1, <1>3, EndSeen
<1>4. ASSUME j + 1 < buf_ptr, Dropped + j + 1 > End(Found)
      PROVE  start_of_frame' = End(Found) - Dropped
  <2>1. CASE Dropped + j > End(Found)
    BY <2>1, <1>1 DEF Undisturbed, StartInv
  <2>2. CASE Dropped + j = End(Found)
    <3>1. Found + 1 \in 1 .. Len(stream.ends) /\ (Found + 1) - 1 = Found
      <4>1. End(Found) < Len(Input)
        BY <2>2, <1>2
      <4>2. Found # Len(stream.ends)
        BY <4>1, <1>2, StreamFacts DEF InBounds
      <4> QED
        BY <4>2, <1>2
    <3>2. Input[End((Found + 1) - 1) + 1] = FF /\ Input[End((Found + 1) - 1) + 2] = SOI
      BY <3>1, ImageMarked DEF InBounds
    <3>3. Input[Dropped + j + 1] = FF /\ Input[Dropped + (j + 1) + 1] = SOI
      <4>1. Dropped + (j + 1) + 1 = End(Found) + 2
        BY <2>2, <1>2
      <4> QED
        BY <4>1, <3>1, <3>2, <2>2
    <3>4. j + 1 \in 0 .. buf_ptr - 1
      BY <1>2, <1>4
    <3>5. buf[j] = FF /\ buf[j + 1] = SOI
      BY <3>3, <3>4, <1>2, ByteRead
    <3> QED
      BY <3>5, <1>1
  <2> QED
    BY <2>1, <2>2, <1>2, <1>4
<1> QED
  BY <1>1, <1>3, <1>4, PassedCalm

\* An end marker the scan acts on ends the image to be found next, or something
\* has gone wrong.
LEMMA ActsOnEnd ==
    ASSUME InBounds, Undisturbed, At(EOI), NoteCut, upset' = {}
    PROVE  /\ Scanning /\ j' = j + 1
           /\ Found < Len(stream.ends) /\ End(Found + 1) = Dropped + j + 2
           /\ Image = Pictures[Found + 1]
<1>1. Scanning /\ j' = j + 1 /\ buf[j] = FF /\ buf[j + 1] = EOI
  BY DEF At, Scanning
<1>2. j + 1 = buf_ptr => taken < Len(Input) /\ Input[taken + 1] = EOI
  BY DEF NoteCut
<1>3. /\ j \in 0 .. buf_ptr - 1 /\ j \in Nat /\ buf_ptr \in Int
      /\ Dropped \in Nat /\ Dropped + buf_ptr = taken
      /\ taken \in 0 .. Len(Input) /\ Len(Input) \in Nat
  BY <1>1, ScanPlaces
<1>4. Dropped + j + 2 <= Len(Input) /\ Input[Dropped + j + 2] = EOI
  <2>1. CASE j + 1 = buf_ptr
    <3>1. taken + 1 = Dropped + j + 2
      BY <2>1, <1>3
    <3> QED
      BY <3>1, <2>1, <1>2, <1>3
  <2>2. CASE j + 1 # buf_ptr
    <3>1. j + 1 \in 0 .. buf_ptr - 1
      BY <2>2, <1>3
    <3>2. buf[j + 1] = Input[Dropped + (j + 1) + 1] /\ Dropped + (j + 1) + 1 \in 1 .. taken
      BY <3>1, ByteRead
    <3>3. Dropped + (j + 1) + 1 = Dropped + j + 2
      BY <1>3
    <3>4. Dropped + j + 2 <= Len(Input)
      <4>1. taken <= Len(Input) /\ taken \in Int
        BY <1>3
      <4> QED
        BY <4>1, <3>2, <3>3, <1>3
    <3>5. Input[Dropped + j + 2] = EOI
      BY <3>2, <3>3, <1>1
    <3> QED
      BY <3>4, <3>5
  <2> QED
    BY <2>1, <2>2
<1>5. Found < Len(stream.ends) /\ End(Found + 1) = Dropped + j + 2
  BY <1>1, <1>4, EndMarker
<1>6. Image = Pictures[Found + 1]
  BY <1>1, <1>5, ImageWhole
<1> QED
  BY <1>1, <1>5, <1>6

\* When one image more has been found, the scan is behind its end.
LEMMA FoundCalm ==
    ASSUME InBounds, Undisturbed, Scanning, phase' = "scan", j' = j + 1,
           Found < Len(stream.ends), End(Found + 1) = Dropped + j + 2,
           UNCHANGED <<start, buffer>>, Found' = Found + 1
    PROVE  FoundInv' /\ StartInv'
<1>1. stream' = stream /\ Input' = Input /\ \A k : EndOf(stream', k) = EndOf(stream, k)
  BY DEF start, Input
<1>2. taken' = taken /\ buf' = buf /\ buf_ptr' = buf_ptr /\ Dropped' = Dropped
  BY DEF buffer, Dropped
<1>3. /\ j \in Nat /\ buf_ptr \in Int /\ Dropped \in Nat /\ Dropped + buf_ptr = taken
      /\ taken \in Nat /\ End(Found) \in Nat /\ j < buf_ptr
      /\ Found \in Nat /\ Len(stream.ends) \in Nat
  BY ScanNumbers
<1>4. End(Found)' = Dropped + j + 2
  BY <1>1 DEF End
<1>5. Found + 1 < Len(stream.ends) =>
        End(Found + 2) >= Dropped + j + 6 /\ End(Found + 2) \in Nat
  <2> SUFFICES ASSUME Found + 1 < Len(stream.ends)
               PROVE  End(Found + 2) >= Dropped + j + 6 /\ End(Found + 2) \in Nat
    OBVIOUS
  <2>1. Found + 1 \in 0 .. Len(stream.ends) /\ Found + 2 \in 0 .. Len(stream.ends)
        /\ Found + 1 < Found + 2
    BY <1>3
  <2>2. End(Found + 1) + 4 <= End(Found + 2) /\ End(Found + 2) \in 0 .. Len(Input)
    BY <2>1, StreamFacts DEF InBounds
  <2> QED
    BY <2>2, <1>3, StreamFacts DEF InBounds
<1>6. End(Found + 1)' = End(Found + 2)
  <2>1. (Found + 1) + 1 = Found + 2
    BY <1>3
  <2> QED
    BY <2>1, <1>1 DEF End
<1>7. Scanning' <=> j + 1 < buf_ptr
  BY <1>2 DEF Scanning
<1>8. StartInv'
  <2>1. ~(Dropped' + j' > End(Found)')
    BY <1>2, <1>3, <1>4
  <2> QED
    BY <2>1 DEF StartInv
<1>9. FoundInv'
  <2>1. Found' <= Len(stream.ends)' /\ (Found' < Len(stream.ends)' <=> Found + 1 < Len(stream.ends))
    BY <1>1, <1>3
  <2>2. End(Found)' <= taken' + 1 /\ End(Found)' <= Dropped' + j' + 1
    BY <1>2, <1>3, <1>4
  <2>3. ASSUME Found + 1 < Len(stream.ends)
        PROVE  End(Found + 1)' > IF Scanning' THEN Dropped' + j' + 1 ELSE taken'
    <3>1. taken' <= Dropped + j + 1 \/ Scanning'
      BY <1>2, <1>3, <1>7
    <3>2. Dropped' + j' + 1 = Dropped + j + 2
      BY <1>2, <1>3
    <3>3. End(Found + 1)' >= Dropped + j + 6 /\ End(Found + 1)' \in Nat
      BY <2>3, <1>5, <1>6
    <3>4. CASE Scanning'
      BY <3>2, <3>3, <3>4, <1>3
    <3>5. CASE ~Scanning'
      BY <3>1, <3>3, <3>5, <1>2, <1>3
    <3> QED
      BY <3>4, <3>5
  <2> QED
    BY <2>1, <2>2, <2>3 DEF FoundInv
<1> QED
  BY <1>8, <1>9

\* A frame put is the next one the stream makes.
LEMMA PutCalm ==
    ASSUME InBounds, Undisturbed, NEW frame, frames' = Append(frames, frame),
           UNCHANGED start, Len(frames) < Len(Frames), frame = Frames[Len(frames) + 1],
           phase' = "scan"
    PROVE  FramesInv'
<1>1. Frames' = Frames
  <2>1. stream' = stream /\ options' = options
    BY DEF start
  <2>2. interlaced' = interlaced /\ Input' = Input
    BY <2>1 DEF interlaced, Input
  <2>3. Pictures' = Pictures
    BY <2>1, <2>2 DEF Pictures, End
  <2> QED
    BY <2>1, <2>2, <2>3 DEF Frames, NewFrame
<1>2. frames \in Seq(Frame) /\ Len(frames) \in Nat /\ Len(Frames) \in Nat
  <2>1. TypeOK
    BY DEF InBounds
  <2>2. Len(Frames) \in Nat
    BY <2>1, FramesSize
  <2> QED
    BY <2>1, <2>2 DEF TypeOK
<1>3. /\ Len(frames') = Len(frames) + 1
      /\ \A k \in 1 .. Len(frames) : frames'[k] = frames[k]
      /\ frames'[Len(frames) + 1] = frame
  <2>1. frames \in Seq(Frame \cup {frame}) /\ frame \in Frame \cup {frame}
    BY <1>2
  <2> QED
    BY <2>1, AppendProperties
<1>4. \A k \in 1 .. Len(frames) : frames[k] = Frames[k]
  BY DEF Undisturbed, FramesInv
<1>5. ASSUME NEW k \in 1 .. Len(frames')
      PROVE  frames'[k] = Frames[k]
  <2>1. k \in 1 .. Len(frames) \/ k = Len(frames) + 1
    BY <1>2, <1>3
  <2> QED
    BY <2>1, <1>3, <1>4
<1>6. Len(frames') <= Len(Frames)
  BY <1>2, <1>3
<1> QED
  BY <1>1, <1>5, <1>6 DEF FramesInv

LEMMA ScanFrameCalm ==
    ASSUME InBounds, Undisturbed, ScanFrame, upset' = {}
    PROVE  Undisturbed'
<1> DEFINE frame == [frame_buf EXCEPT !.f1 = Image, !.f2 = <<>>]
<1>1. /\ At(EOI) /\ NoteCut /\ dominant_field /\ ~interlaced
      /\ frame_buf' = frame /\ frames' = Append(frames, frame) /\ move_start' = j + 2
      /\ UNCHANGED <<start, phase, buffer, dominant_field>>
  BY DEF ScanFrame, PutFrame
<1> HIDE DEF frame
<1>2. /\ Scanning /\ j' = j + 1
      /\ Found < Len(stream.ends) /\ End(Found + 1) = Dropped + j + 2
      /\ Image = Pictures[Found + 1]
  BY <1>1, ActsOnEnd
<1>3. phase' = "scan"
  BY <1>1, <1>2 DEF Scanning
<1>4. /\ frames \in Seq(Frame) /\ Len(frames) \in Nat /\ frame_buf \in Frame
      /\ j \in Nat /\ Dropped \in Nat
  <2>1. frames \in Seq(Frame) /\ Len(frames) \in Nat /\ frame_buf \in Frame
    BY DEF InBounds, TypeOK
  <2>2. j \in Nat /\ Dropped \in Nat
    BY <1>2, ScanPlaces
  <2> QED
    BY <2>1, <2>2
<1>5. Len(frames') = Len(frames) + 1
  <2>1. frames \in Seq(Frame \cup {frame}) /\ frame \in Frame \cup {frame}
    BY <1>4
  <2> QED
    BY <2>1, <1>1, AppendProperties
<1>6. interlaced' = interlaced
  BY <1>1 DEF interlaced, start
<1>7. Found = Len(frames) /\ Found' = Found + 1 /\ Put' = Found + 1
  BY <1>1, <1>5, <1>6 DEF Found, Put
<1>8. FoundInv' /\ StartInv'
  BY <1>1, <1>2, <1>3, <1>7, FoundCalm
<1>9. BufferInv'
  <2>1. taken' = taken /\ buf' = buf /\ buf_ptr' = buf_ptr /\ Dropped' = Dropped /\ Input' = Input
    BY <1>1 DEF buffer, Dropped, start, Input
  <2>2. End(Put)' = Dropped + j + 2
    BY <1>1, <1>2, <1>7 DEF End, start
  <2>3. move_start' # -1 /\ Dropped' + move_start' = Dropped + j + 2
    BY <2>1, <1>1, <1>4
  <2> QED
    BY <2>1, <2>2, <2>3, <1>3 DEF Undisturbed, BufferInv
<1>10. Len(frames) < Len(Frames) /\ frame = Frames[Len(frames) + 1]
  <2>1. /\ Len(Frames) = Len(stream.ends) /\ Len(Frames) \in Nat
        /\ \A k \in 1 .. Len(Frames) : Frames[k] = [NewFrame EXCEPT !.f1 = Pictures[k]]
    BY <1>1, FramesSize DEF InBounds
  <2>2. Len(frames) < Len(Frames) /\ Len(frames) + 1 \in 1 .. Len(Frames)
    BY <2>1, <1>2, <1>4, <1>7
  <2>3. Frames[Len(frames) + 1] = [NewFrame EXCEPT !.f1 = Image]
    BY <2>1, <2>2, <1>2, <1>7
  <2>4. frame_buf.interlaced = interlaced /\ frame_buf.odd_dominant = ("o" \in options)
    BY DEF Undisturbed, FieldInv
  <2>5. frame = [interlaced |-> interlaced, odd_dominant |-> "o" \in options,
                 f1 |-> Image, f2 |-> <<>>]
    <3> DEFINE first == [frame_buf EXCEPT !.f1 = Image]
    <3>1. frame_buf = [interlaced |-> frame_buf.interlaced,
                       odd_dominant |-> frame_buf.odd_dominant,
                       f1 |-> frame_buf.f1, f2 |-> frame_buf.f2]
      BY <1>4 DEF Frame
    <3>2. first = [interlaced |-> interlaced, odd_dominant |-> "o" \in options,
                   f1 |-> Image, f2 |-> frame_buf.f2]
      BY <3>1, <2>4
    <3>3. frame = [first EXCEPT !.f2 = <<>>]
      BY DEF frame
    <3> HIDE DEF first
    <3> QED
      BY <3>2, <3>3
  <2>6. [NewFrame EXCEPT !.f1 = Image]
          = [interlaced |-> interlaced, odd_dominant |-> "o" \in options,
             f1 |-> Image, f2 |-> <<>>]
    BY DEF NewFrame
  <2> QED
    BY <2>2, <2>3, <2>5, <2>6
<1>11. FramesInv'
  BY <1>1, <1>3, <1>10, PutCalm
<1>12. FieldInv'
  <2>1. options' = options /\ dominant_field'
    BY <1>1 DEF start
  <2>2. frame.interlaced = frame_buf.interlaced /\ frame.odd_dominant = frame_buf.odd_dominant
    BY <1>4 DEF frame, Frame
  <2> QED
    BY <2>1, <2>2, <1>1, <1>6 DEF Undisturbed, FieldInv
<1> QED
  BY <1>8, <1>9, <1>11, <1>12 DEF Undisturbed

LEMMA ScanFirstFieldCalm ==
    ASSUME InBounds, Undisturbed, ScanFirstField, upset' = {}
    PROVE  Undisturbed'
<1> DEFINE frame == [frame_buf EXCEPT !.f1 = Image, !.f2 = <<>>]
<1>1. /\ At(EOI) /\ NoteCut /\ dominant_field /\ interlaced
      /\ frame_buf' = frame /\ dominant_field' = FALSE
      /\ UNCHANGED <<start, phase, buffer, start_of_frame, move_start, frames>>
  BY DEF ScanFirstField
<1> HIDE DEF frame
<1>2. /\ Scanning /\ j' = j + 1
      /\ Found < Len(stream.ends) /\ End(Found + 1) = Dropped + j + 2
      /\ Image = Pictures[Found + 1]
  BY <1>1, ActsOnEnd
<1>3. phase' = "scan"
  BY <1>1, <1>2 DEF Scanning
<1>4. stream' = stream /\ options' = options /\ interlaced' = interlaced /\ Input' = Input
  BY <1>1 DEF start, interlaced, Input
<1>5. Put' = Put /\ Found = Put /\ Found' = Found + 1
  BY <1>1, <1>4 DEF Put, Found
<1>6. FoundInv' /\ StartInv'
  BY <1>1, <1>2, <1>3, <1>5, FoundCalm
<1>7. BufferInv'
  <2>1. taken' = taken /\ buf' = buf /\ buf_ptr' = buf_ptr /\ Dropped' = Dropped
    BY <1>1 DEF buffer, Dropped
  <2>2. End(Put)' = End(Put)
    BY <1>4, <1>5 DEF End
  <2> QED
    BY <2>1, <2>2, <1>1, <1>3, <1>4 DEF Undisturbed, BufferInv
<1>8. Pictures' = Pictures
  BY <1>4 DEF Pictures, End
<1>9. FieldInv'
  <2>1. frame_buf \in Frame
    BY DEF InBounds, TypeOK
  <2>2. frame_buf.interlaced = interlaced /\ frame_buf.odd_dominant = ("o" \in options)
    BY DEF Undisturbed, FieldInv
  <2>3. frame.interlaced = interlaced /\ frame.odd_dominant = ("o" \in options)
    BY <2>1, <2>2 DEF frame, Frame
  <2>4. frame.f1 = Image /\ frame.f2 = <<>>
    <3> DEFINE first == [frame_buf EXCEPT !.f1 = Image]
    <3>1. first.f1 = Image /\ DOMAIN first = {"interlaced", "odd_dominant", "f1", "f2"}
      BY <2>1 DEF Frame
    <3>2. frame = [first EXCEPT !.f2 = <<>>]
      BY DEF frame
    <3> HIDE DEF first
    <3> QED
      BY <3>1, <3>2
  <2> QED
    BY <2>3, <2>4, <1>1, <1>2, <1>3, <1>4, <1>5, <1>8 DEF FieldInv
<1>10. FramesInv'
  <2>1. Frames' = Frames
    BY <1>4, <1>8 DEF Frames, NewFrame
  <2> QED
    BY <2>1, <1>1, <1>3 DEF Undisturbed, FramesInv
<1> QED
  BY <1>6, <1>7, <1>9, <1>10 DEF Undisturbed

LEMMA ScanSecondFieldCalm ==
    ASSUME InBounds, Undisturbed, ScanSecondField, upset' = {}
    PROVE  Undisturbed'
<1> DEFINE frame == [frame_buf EXCEPT !.f2 = Image]
<1>1. /\ At(EOI) /\ NoteCut /\ ~dominant_field /\ dominant_field'
      /\ frame_buf' = frame /\ frames' = Append(frames, frame) /\ move_start' = j + 2
      /\ UNCHANGED <<start, phase, buffer>>
  BY DEF ScanSecondField, PutFrame
<1> HIDE DEF frame
<1>2. /\ Scanning /\ j' = j + 1
      /\ Found < Len(stream.ends) /\ End(Found + 1) = Dropped + j + 2
      /\ Image = Pictures[Found + 1]
  BY <1>1, ActsOnEnd
<1>3. phase' = "scan"
  BY <1>1, <1>2 DEF Scanning
<1>4. /\ frames \in Seq(Frame) /\ Len(frames) \in Nat /\ frame_buf \in Frame
      /\ j \in Nat /\ Dropped \in Nat /\ Len(stream.ends) \in Nat
  <2>1. frames \in Seq(Frame) /\ Len(frames) \in Nat /\ frame_buf \in Frame
    BY DEF InBounds, TypeOK
  <2>2. j \in Nat /\ Dropped \in Nat /\ Len(stream.ends) \in Nat
    BY <1>2, ScanPlaces
  <2> QED
    BY <2>1, <2>2
<1>5. Len(frames') = Len(frames) + 1
  <2>1. frames \in Seq(Frame \cup {frame}) /\ frame \in Frame \cup {frame}
    BY <1>4
  <2> QED
    BY <2>1, <1>1, AppendProperties
<1>6. /\ stream' = stream /\ options' = options /\ interlaced' = interlaced /\ Input' = Input
  BY <1>1 DEF start, interlaced, Input
<1>7. /\ interlaced /\ frame_buf.f1 = Pictures[Found]
      /\ frame_buf.interlaced = interlaced /\ frame_buf.odd_dominant = ("o" \in options)
  BY <1>1 DEF Undisturbed, FieldInv
<1>8. Found = 2 * Len(frames) + 1 /\ Found' = Found + 1 /\ Put' = Found + 1
  <2>1. Found = 2 * Len(frames) + 1
    BY <1>1, <1>7 DEF Found, Put
  <2>2. Put' = 2 * (Len(frames) + 1) /\ Found' = Put'
    BY <1>1, <1>5, <1>6, <1>7 DEF Found, Put
  <2> QED
    BY <2>1, <2>2, <1>4
<1>9. FoundInv' /\ StartInv'
  BY <1>1, <1>2, <1>3, <1>8, FoundCalm
<1>10. BufferInv'
  <2>1. taken' = taken /\ buf' = buf /\ buf_ptr' = buf_ptr /\ Dropped' = Dropped
    BY <1>1 DEF buffer, Dropped
  <2>2. End(Put)' = Dropped + j + 2
    BY <1>2, <1>6, <1>8 DEF End
  <2>3. move_start' # -1 /\ Dropped' + move_start' = Dropped + j + 2
    BY <2>1, <1>1, <1>4
  <2> QED
    BY <2>1, <2>2, <2>3, <1>3, <1>6 DEF Undisturbed, BufferInv
<1>11. Len(frames) < Len(Frames) /\ frame = Frames[Len(frames) + 1]
  <2> DEFINE k == Len(frames) + 1
  <2>1. /\ Len(Frames) = Len(stream.ends) \div 2 /\ Len(Frames) \in Nat
        /\ \A i \in 1 .. Len(Frames) :
             Frames[i] = [NewFrame EXCEPT !.f1 = Pictures[2 * i - 1], !.f2 = Pictures[2 * i]]
    BY <1>7, FramesSize DEF InBounds
  <2>2. k \in Nat \ {0} /\ 2 * k = Found + 1 /\ 2 * k - 1 = Found
    BY <1>4, <1>8
  <2>3. k <= Len(Frames)
    <3>1. 2 * k <= Len(stream.ends)
      BY <2>2, <1>2, <1>4, <1>8
    <3> HIDE DEF k
    <3> QED
      BY <2>1, <2>2, <3>1, <1>4, Half
  <2>4. Len(frames) < Len(Frames) /\ k \in 1 .. Len(Frames)
    <3>a. Len(Frames) \in Nat
      BY <2>1
    <3>1. Len(frames) < Len(Frames)
      BY <3>a, <2>3, <1>4
    <3>2. k \in 1 .. Len(Frames)
      <4> HIDE DEF k
      <4> QED
        BY <3>a, <2>2, <2>3
    <3> QED
      BY <3>1, <3>2
  <2>5. Frames[k] = [NewFrame EXCEPT !.f1 = Pictures[2 * k - 1], !.f2 = Pictures[2 * k]]
    BY <2>1, <2>4
  <2>6. Frames[k] = [NewFrame EXCEPT !.f1 = Pictures[Found], !.f2 = Image]
    BY <2>2, <2>5, <1>2
  <2>7. frame = [interlaced |-> interlaced, odd_dominant |-> "o" \in options,
                 f1 |-> Pictures[Found], f2 |-> Image]
    <3>1. frame_buf = [interlaced |-> frame_buf.interlaced,
                       odd_dominant |-> frame_buf.odd_dominant,
                       f1 |-> frame_buf.f1, f2 |-> frame_buf.f2]
      BY <1>4 DEF Frame
    <3>2. frame_buf = [interlaced |-> interlaced, odd_dominant |-> "o" \in options,
                       f1 |-> Pictures[Found], f2 |-> frame_buf.f2]
      BY <3>1, <1>7
    <3>3. frame = [frame_buf EXCEPT !.f2 = Image]
      BY DEF frame
    <3> QED
      BY <3>2, <3>3
  <2>8. [NewFrame EXCEPT !.f1 = Pictures[Found], !.f2 = Image]
          = [interlaced |-> interlaced, odd_dominant |-> "o" \in options,
             f1 |-> Pictures[Found], f2 |-> Image]
    <3> DEFINE first == [NewFrame EXCEPT !.f1 = Pictures[Found]]
    <3>1. first = [interlaced |-> interlaced, odd_dominant |-> "o" \in options,
                   f1 |-> Pictures[Found], f2 |-> <<>>]
      BY DEF NewFrame
    <3>2. [NewFrame EXCEPT !.f1 = Pictures[Found], !.f2 = Image] = [first EXCEPT !.f2 = Image]
      OBVIOUS
    <3> HIDE DEF first
    <3> QED
      BY <3>1, <3>2
  <2> QED
    BY <2>4, <2>6, <2>7, <2>8
<1>12. FramesInv'
  BY <1>1, <1>3, <1>11, PutCalm
<1>13. FieldInv'
  <2>1. frame.interlaced = frame_buf.interlaced /\ frame.odd_dominant = frame_buf.odd_dominant
    BY <1>4 DEF frame, Frame
  <2> QED
    BY <2>1, <1>1, <1>6, <1>7 DEF FieldInv
<1> QED
  BY <1>9, <1>10, <1>12, <1>13 DEF Undisturbed

LEMMA NextUndisturbed ==
    InBounds /\ (upset = {} => Undisturbed) /\ [Next]_vars => (upset' = {} => Undisturbed')
<1> SUFFICES ASSUME InBounds, upset = {} => Undisturbed, [Next]_vars, upset' = {}
             PROVE  Undisturbed'
  OBVIOUS
<1>1. upset = {}
  BY DEF Next, Read, EndOfInput, ReadFails, ScanStart, ScanFrame, ScanFirstField,
         ScanSecondField, ScanOther, ScanDone, Move, MoveNothing, MoveNone, NoteCut, vars
<1>2. Undisturbed
  BY <1>1
<1>3. CASE Read
  BY <1>2, <1>3, ReadCalm
<1>4. CASE EndOfInput
  BY <1>2, <1>4, EndOfInputCalm
<1>4a. CASE ReadFails
  BY <1>2, <1>4a, ReadFailsCalm
<1>5. CASE ScanStart
  BY <1>2, <1>5, ScanStartCalm
<1>6. CASE ScanFrame
  BY <1>2, <1>6, ScanFrameCalm
<1>7. CASE ScanFirstField
  BY <1>2, <1>7, ScanFirstFieldCalm
<1>8. CASE ScanSecondField
  BY <1>2, <1>8, ScanSecondFieldCalm
<1>9. CASE ScanOther
  BY <1>2, <1>9, ScanOtherCalm
<1>10. CASE ScanDone
  BY <1>2, <1>10, ScanDoneCalm
<1>11. CASE Move
  BY <1>2, <1>11, MoveCalm
<1>12. CASE MoveNothing
  BY <1>12 DEF MoveNothing
<1>13. CASE MoveNone
  BY <1>2, <1>13, MoveNoneCalm
<1>14. CASE UNCHANGED vars
  <2>1. /\ UNCHANGED <<start, move_start, start_of_frame, dominant_field, frame_buf, frames>>
        /\ UNCHANGED <<taken, buf, buf_ptr, j, phase>>
    BY <1>14 DEF vars, buffer, marks
  <2>2. /\ Put' = Put /\ Found' = Found
        /\ End(Put)' = End(Put) /\ End(Found)' = End(Found) /\ End(Found + 1)' = End(Found + 1)
        /\ Len(stream.ends)' = Len(stream.ends) /\ Input' = Input
    BY <2>1, Kept
  <2>3. Dropped' = Dropped /\ (Scanning' <=> Scanning)
    BY <2>1 DEF Dropped, Scanning
  <2>4. BufferInv'
    BY <2>1, <2>2, <2>3, <1>2 DEF Undisturbed, BufferInv
  <2>5. FoundInv' /\ StartInv'
    BY <2>1, <2>2, <2>3, <1>2 DEF Undisturbed, FoundInv, StartInv
  <2>6. FieldInv' /\ FramesInv'
    <3>1. phase = "ended" => taken = Len(Input)
      BY <1>2 DEF Undisturbed, FramesInv
    <3>2. phase # "scan" => dominant_field
      BY <1>2 DEF Undisturbed, FieldInv
    <3> QED
      BY <3>1, <3>2, <2>1, <1>2, FramesKept
  <2> QED
    BY <2>4, <2>5, <2>6 DEF Undisturbed
<1> QED
  BY <1>3, <1>4, <1>4a, <1>5, <1>6, <1>7, <1>8, <1>9, <1>10, <1>11, <1>12, <1>13, <1>14 DEF Next

-----------------------------------------------------------------------------
(* Counting the frames that are images.                                     *)

LEMMA ImagesInType ==
    ASSUME NEW put, NEW i \in Nat
    PROVE  /\ IsFiniteSet({h \in 1 .. i : BeginsImage(put[h])})
           /\ ImagesIn(put, i) \in Nat
<1>1. IsFiniteSet(1 .. i)
  BY FS_Interval
<1>2. {h \in 1 .. i : BeginsImage(put[h])} \in SUBSET (1 .. i)
  OBVIOUS
<1>3. IsFiniteSet({h \in 1 .. i : BeginsImage(put[h])})
  BY <1>1, <1>2, FS_Subset
<1> QED
  BY <1>3, FS_CardinalityType DEF ImagesIn

\* A frame put behind others leaves their count as it is, and is itself counted
\* if it is an image.
LEMMA ImagesInAppend ==
    ASSUME NEW put \in Seq(Frame), NEW frame \in Frame
    PROVE  /\ \A i \in 0 .. Len(put) : ImagesIn(Append(put, frame), i) = ImagesIn(put, i)
           /\ ImagesIn(Append(put, frame), Len(put) + 1)
                = ImagesIn(put, Len(put)) + (IF BeginsImage(frame) THEN 1 ELSE 0)
<1> DEFINE n == Len(put)
           more == Append(put, frame)
           Of(q, i) == {h \in 1 .. i : BeginsImage(q[h])}
<1>1. n \in Nat /\ \A h \in 1 .. n : more[h] = put[h]
  BY AppendProperties
<1>2. more[n + 1] = frame
  BY AppendProperties
<1> HIDE DEF more
<1>3. ASSUME NEW i \in 0 .. n
      PROVE  Of(more, i) = Of(put, i)
  <2>1. \A h \in 1 .. i : h \in 1 .. n
    BY <1>1
  <2>2. \A h \in 1 .. i : more[h] = put[h]
    BY <2>1, <1>1
  <2> QED
    BY <2>2
<1>4. \A i \in 0 .. n : ImagesIn(more, i) = ImagesIn(put, i)
  BY <1>3 DEF ImagesIn
<1>5. n \in 0 .. n
  BY <1>1
<1>6. 1 .. n + 1 = (1 .. n) \cup {n + 1} /\ n + 1 \notin 1 .. n
  BY <1>1
<1>7. IsFiniteSet(Of(put, n)) /\ ImagesIn(put, n) \in Nat
  BY <1>1, ImagesInType
<1>8. CASE BeginsImage(frame)
  <2>1. Of(more, n + 1) = Of(more, n) \cup {n + 1}
    BY <1>2, <1>6, <1>8
  <2>2. Of(more, n + 1) = Of(put, n) \cup {n + 1} /\ n + 1 \notin Of(put, n)
    BY <2>1, <1>3, <1>5, <1>6
  <2>3. Cardinality(Of(put, n) \cup {n + 1}) = Cardinality(Of(put, n)) + 1
    BY <2>2, <1>7, FS_AddElement
  <2>4. ImagesIn(more, n + 1) = ImagesIn(put, n) + 1
    BY <2>2, <2>3 DEF ImagesIn
  <2> QED
    BY <2>4, <1>4, <1>8 DEF more
<1>9. CASE ~BeginsImage(frame)
  <2>1. Of(more, n + 1) = Of(more, n)
    BY <1>2, <1>6, <1>9
  <2>2. ImagesIn(more, n + 1) = ImagesIn(put, n)
    BY <2>1, <1>3, <1>5 DEF ImagesIn
  <2> QED
    BY <2>2, <1>4, <1>7, <1>9 DEF more
<1> QED
  BY <1>8, <1>9

-----------------------------------------------------------------------------
(* What the scan sees when images may have been cut.                        *)

\* The images end in their order.
LEMMA EndsOrder ==
    ASSUME TypeOK, NEW k \in 0 .. Len(stream.ends), NEW l \in 0 .. Len(stream.ends)
    PROVE  /\ k < l <=> End(k) < End(l)
           /\ k < l => End(k) + 4 <= End(l)
           /\ k = l <=> End(k) = End(l)
<1>1. k \in Int /\ l \in Int
  BY StreamFacts
<1>2. /\ k < l => End(k) + 4 <= End(l)
      /\ l < k => End(l) + 4 <= End(k)
  BY StreamFacts
<1>3. End(k) \in Int /\ End(l) \in Int
  BY StreamFacts
<1> HIDE DEF End
<1>4. k = l => End(k) = End(l)
  OBVIOUS
<1> QED
  BY <1>1, <1>2, <1>3, <1>4

LEMMA CutPlaces ==
    ASSUME InBounds, CutAtMost
    PROVE  /\ MAX \in Nat /\ Len(Input) \in Nat
           /\ taken \in Nat /\ taken <= Len(Input)
           /\ buf_ptr \in Int /\ -1 <= buf_ptr /\ buf_ptr <= MAX
           /\ j \in Nat /\ (Scanning => j < buf_ptr)
           /\ start_of_frame \in Int /\ -1 <= start_of_frame
           /\ move_start \in Int /\ -1 <= move_start
           /\ Dropped \in Nat /\ Dropped + buf_ptr = taken
           /\ KeptFrom \in Nat /\ Dropped <= KeptFrom
<1>1. /\ MAX \in Nat /\ taken \in 0 .. Len(Input) /\ Len(Input) \in Nat
      /\ buf_ptr \in -1 .. MAX /\ j \in 0 .. MAX
      /\ start_of_frame \in -1 .. MAX - 1 /\ move_start \in -1 .. MAX + 1
  BY MAXAssumption, StreamFacts DEF InBounds, TypeOK
<1>2. buf_ptr <= taken
  BY DEF CutAtMost, KeptInv
<1>3. Dropped \in Nat /\ Dropped + buf_ptr = taken
  BY <1>1, <1>2 DEF Dropped
<1>4. KeptFrom \in Nat /\ Dropped <= KeptFrom
  BY <1>1, <1>3 DEF KeptFrom
<1> QED
  BY <1>1, <1>3, <1>4 DEF Scanning

\* Where the images are, those that were put and the next one.
LEMMA CutEnds ==
    ASSUME InBounds, CutAtMost
    PROVE  /\ Images \in Nat /\ Len(stream.ends) \in Nat /\ Images <= Len(stream.ends)
           /\ End(Images) \in Nat /\ End(Images) <= Len(Input)
           /\ KeptFrom <= End(Images)
           /\ Images < Len(stream.ends) =>
                End(Images + 1) \in Nat /\ End(Images) + 4 <= End(Images + 1)
                  /\ End(Images + 1) <= Len(Input)
           /\ Images > 0 =>
                End(Images - 1) \in Nat /\ End(Images - 1) + 4 <= End(Images)
                  /\ End(Images - 1) < KeptFrom
           /\ Images = 0 => End(Images) = 0
<1>1. TypeOK /\ Len(stream.ends) \in Nat /\ Len(Input) \in Nat
  BY StreamFacts DEF InBounds
<1>2. Images \in Nat
  <2>1. Len(frames) \in Nat
    BY <1>1 DEF TypeOK
  <2> QED
    BY <2>1, ImagesInType DEF Images
<1>3. Images <= Len(stream.ends)
  BY DEF CutAtMost, ImagesInv
<1>4. Images \in 0 .. Len(stream.ends)
  BY <1>1, <1>2, <1>3
<1>5. End(Images) \in 0 .. Len(Input)
  BY <1>1, <1>4, StreamFacts
<1>6. ASSUME Images < Len(stream.ends)
      PROVE  End(Images + 1) \in Nat /\ End(Images) + 4 <= End(Images + 1)
               /\ End(Images + 1) <= Len(Input)
  <2>1. Images + 1 \in 0 .. Len(stream.ends) /\ Images < Images + 1
    BY <1>1, <1>2, <1>6
  <2>2. End(Images + 1) \in 0 .. Len(Input) /\ End(Images) + 4 <= End(Images + 1)
    BY <2>1, <1>1, <1>4, StreamFacts
  <2> QED
    BY <2>2, <1>1
<1>7. ASSUME Images > 0
      PROVE  End(Images - 1) \in Nat /\ End(Images - 1) + 4 <= End(Images)
               /\ End(Images - 1) < KeptFrom
  <2>1. Images - 1 \in 0 .. Len(stream.ends) /\ Images - 1 < Images
    BY <1>1, <1>2, <1>3, <1>7
  <2>2. End(Images - 1) \in 0 .. Len(Input) /\ End(Images - 1) + 4 <= End(Images)
    BY <2>1, <1>1, <1>4, StreamFacts
  <2> QED
    BY <2>2, <1>1, <1>7 DEF CutAtMost, KeptInv
<1>8. KeptFrom <= End(Images)
  BY DEF CutAtMost, KeptInv
<1>9. Images = 0 => End(Images) = 0
  BY DEF End, EndOf
<1> QED
  BY <1>1, <1>2, <1>3, <1>5, <1>6, <1>7, <1>8, <1>9

LEMMA CutByteRead ==
    ASSUME InBounds, CutAtMost, NEW i \in 0 .. buf_ptr - 1
    PROVE  buf[i] = Input[Dropped + i + 1] /\ Dropped + i + 1 \in 1 .. taken
<1>1. buf[i] = Input[Dropped + i + 1]
  BY DEF CutAtMost, KeptInv
<1>2. Dropped \in Nat /\ buf_ptr \in Int /\ taken \in Int /\ Dropped + buf_ptr = taken
  BY CutPlaces
<1> QED
  BY <1>1, <1>2

\* The scan is never at an earlier image than the one put last.
LEMMA ScanBehind ==
    ASSUME InBounds, CutAtMost, Scanning, Images > 0
    PROVE  End(Images - 1) < Dropped + j
<1>1. /\ j \in Nat /\ Dropped \in Nat /\ move_start \in Int
      /\ End(Images) \in Nat /\ End(Images - 1) \in Nat
      /\ End(Images - 1) + 4 <= End(Images) /\ End(Images - 1) < KeptFrom
  BY CutPlaces, CutEnds
<1>2. ASSUME Dropped + j < End(Images) - 1 PROVE KeptFrom = Dropped
  <2>1. move_start = -1
    BY <1>2 DEF CutAtMost, CutStartInv
  <2> QED
    BY <2>1, <1>1 DEF KeptFrom
<1> QED
  BY <1>1, <1>2

\* A start marker the scan has behind it or is at, with both its bytes read,
\* begins the next image: there is none in what is left of one.
LEMMA CutStartMarker ==
    ASSUME InBounds, CutAtMost, Scanning, NEW i \in 0 .. j, i + 1 < buf_ptr,
           buf[i] = FF, buf[i + 1] = SOI, Images > 0 => End(Images - 1) < Dropped + i
    PROVE  Dropped + i = End(Images)
<1>1. /\ j \in Nat /\ i \in Nat /\ i <= j /\ j < buf_ptr /\ buf_ptr \in Int
      /\ Dropped \in Nat /\ Dropped + buf_ptr = taken
      /\ taken \in Nat /\ taken <= Len(Input) /\ Len(Input) \in Nat
  BY CutPlaces
<1>2. /\ Images \in Nat /\ Len(stream.ends) \in Nat /\ Images <= Len(stream.ends)
      /\ End(Images) \in Nat
  BY CutEnds
<1> DEFINE p == Dropped + i + 1
<1>3. /\ p \in 1 .. Len(Input) - 1 /\ Input[p] = FF /\ Input[p + 1] = SOI
  <2>1. i \in 0 .. buf_ptr - 1 /\ i + 1 \in 0 .. buf_ptr - 1
    BY <1>1
  <2>2. buf[i] = Input[p] /\ p \in 1 .. taken
    BY <2>1, CutByteRead
  <2>3. buf[i + 1] = Input[Dropped + (i + 1) + 1] /\ Dropped + (i + 1) + 1 \in 1 .. taken
    BY <2>1, CutByteRead
  <2>4. Dropped + (i + 1) + 1 = p + 1
    BY <1>1
  <2> QED
    BY <1>1, <2>2, <2>3, <2>4
<1>4. PICK k \in 1 .. Len(stream.ends) : p = End(k - 1) + 1
  BY <1>3, Markers DEF InBounds
<1>5. /\ TypeOK /\ Images \in 0 .. Len(stream.ends)
      /\ k \in Nat /\ k - 1 \in 0 .. Len(stream.ends) /\ End(k - 1) \in Nat
  <2>1. TypeOK /\ Images \in 0 .. Len(stream.ends)
    BY <1>2 DEF InBounds
  <2>2. k \in Nat /\ k - 1 \in 0 .. Len(stream.ends)
    BY <1>2
  <2>3. End(k - 1) \in 0 .. Len(Input)
    BY <2>1, <2>2, StreamFacts
  <2> QED
    BY <2>1, <2>2, <2>3, <1>1
<1>6. Images <= k - 1
  <2> SUFFICES ASSUME k - 1 < Images PROVE FALSE
    BY <1>2, <1>5
  <2>1. Images > 0 /\ Images - 1 \in 0 .. Len(stream.ends) /\ ~(Images - 1 < k - 1)
    BY <1>2, <1>5
  <2>2. ~(End(Images - 1) < End(k - 1))
    BY <2>1, <1>5, EndsOrder
  <2>3. End(Images - 1) < Dropped + i /\ End(k - 1) = Dropped + i
    BY <2>1, <1>1, <1>4, <1>5
  <2> QED
    BY <2>2, <2>3
<1>7. k - 1 <= Images
  <2> SUFFICES ASSUME Images < k - 1 PROVE FALSE
    BY <1>2, <1>5
  <2>1. Images < Len(stream.ends) /\ Images + 1 \in 0 .. Len(stream.ends) /\ ~(k - 1 < Images + 1)
    BY <1>2, <1>5
  <2>2. ~(End(k - 1) < End(Images + 1))
    BY <2>1, <1>5, EndsOrder
  <2>3. End(Images + 1) > Dropped + j + 1 /\ End(Images + 1) \in Nat
    BY <2>1, CutEnds DEF CutAtMost, ImagesInv
  <2> QED
    BY <2>2, <2>3, <1>1, <1>4, <1>5
<1>8. Images = k - 1
  BY <1>2, <1>5, <1>6, <1>7
<1>9. End(Images) = End(k - 1)
  BY <1>8
<1> QED
  BY <1>1, <1>2, <1>4, <1>9

\* An end marker, both of whose bytes are the input's, ends what is left of the
\* image put last or the whole of the next one.
LEMMA CutEndMarker ==
    ASSUME InBounds, CutAtMost, Scanning, j + 1 < buf_ptr, buf[j] = FF, buf[j + 1] = EOI
    PROVE  \/ Dropped + j + 2 = End(Images)
           \/ Images < Len(stream.ends) /\ Dropped + j + 2 = End(Images + 1)
<1>1. /\ j \in Nat /\ buf_ptr \in Int
      /\ Dropped \in Nat /\ Dropped + buf_ptr = taken
      /\ taken \in Nat /\ taken <= Len(Input) /\ Len(Input) \in Nat
  BY CutPlaces
<1>2. /\ Images \in Nat /\ Len(stream.ends) \in Nat /\ Images <= Len(stream.ends)
      /\ End(Images) \in Nat
  BY CutEnds
<1> DEFINE p == Dropped + j + 1
<1>3. /\ p \in 1 .. Len(Input) - 1 /\ Input[p] = FF /\ Input[p + 1] = EOI
  <2>1. j \in 0 .. buf_ptr - 1 /\ j + 1 \in 0 .. buf_ptr - 1
    BY <1>1
  <2>2. buf[j] = Input[p] /\ p \in 1 .. taken
    BY <2>1, CutByteRead
  <2>3. buf[j + 1] = Input[Dropped + (j + 1) + 1] /\ Dropped + (j + 1) + 1 \in 1 .. taken
    BY <2>1, CutByteRead
  <2>4. Dropped + (j + 1) + 1 = p + 1
    BY <1>1
  <2> QED
    BY <1>1, <2>2, <2>3, <2>4
<1>4. PICK k \in 1 .. Len(stream.ends) : p = End(k) - 1
  BY <1>3, Markers DEF InBounds
<1>5. /\ TypeOK /\ Images \in 0 .. Len(stream.ends)
      /\ k \in Nat /\ k \in 0 .. Len(stream.ends) /\ End(k) \in Nat
  <2>1. TypeOK /\ Images \in 0 .. Len(stream.ends) /\ k \in Nat /\ k \in 0 .. Len(stream.ends)
    BY <1>2 DEF InBounds
  <2>2. End(k) \in 0 .. Len(Input)
    BY <2>1, StreamFacts
  <2> QED
    BY <2>1, <2>2, <1>1
<1>6. Images <= k
  <2> SUFFICES ASSUME k < Images PROVE FALSE
    BY <1>2, <1>5
  <2>1. Images > 0 /\ Images - 1 \in 0 .. Len(stream.ends) /\ ~(Images - 1 < k)
    BY <1>2, <1>5
  <2>2. ~(End(Images - 1) < End(k))
    BY <2>1, <1>5, EndsOrder
  <2>3. End(Images - 1) < Dropped + j /\ End(Images - 1) \in Nat
    BY <2>1, ScanBehind, CutEnds
  <2> QED
    BY <2>2, <2>3, <1>1, <1>4, <1>5
<1>7. CASE k = Images
  <2>1. End(k) = End(Images)
    BY <1>7
  <2> QED
    BY <2>1, <1>1, <1>4, <1>5
<1>8. CASE k # Images
  <2>1. Images < Len(stream.ends) /\ Images + 1 \in 0 .. Len(stream.ends)
    BY <1>2, <1>5, <1>6, <1>8
  <2>2. End(Images + 1) > Dropped + j + 1 /\ End(Images + 1) \in Nat
    BY <2>1, CutEnds DEF CutAtMost, ImagesInv
  <2>3. ~(Images + 1 < k)
    <3> SUFFICES ASSUME Images + 1 < k PROVE FALSE
      OBVIOUS
    <3>1. End(Images + 1) + 4 <= End(k)
      BY <2>1, <1>5, EndsOrder
    <3> QED
      BY <3>1, <2>2, <1>1, <1>4, <1>5
  <2>4. k = Images + 1
    BY <2>3, <1>2, <1>5, <1>6, <1>8
  <2>5. End(k) = End(Images + 1)
    BY <2>4
  <2> QED
    BY <2>1, <2>5, <1>1, <1>4, <1>5
<1> QED
  BY <1>7, <1>8

\* The last bytes of the image put last, and the first ones of the next.
LEMMA CutBytes ==
    ASSUME InBounds, CutAtMost, NEW i \in 0 .. buf_ptr - 1
    PROVE  /\ Dropped + i = End(Images) - 2 => buf[i] = FF
           /\ Dropped + i = End(Images) - 1 => buf[i] = EOI
           /\ Dropped + i = End(Images) => Images < Len(stream.ends) /\ buf[i] = FF
           /\ Dropped + i = End(Images) + 1 => Images < Len(stream.ends) /\ buf[i] = SOI
           /\ Dropped + i > End(Images) => Images < Len(stream.ends)
<1>1. /\ i \in Nat /\ Dropped \in Nat /\ End(Images) \in Nat
      /\ Images \in Nat /\ Len(stream.ends) \in Nat /\ Images <= Len(stream.ends)
      /\ taken \in Nat /\ taken <= Len(Input) /\ Len(Input) \in Nat
      /\ Images = 0 => End(Images) = 0
  BY CutPlaces, CutEnds
<1>2. buf[i] = Input[Dropped + i + 1] /\ Dropped + i + 1 \in 1 .. taken
  BY CutByteRead
<1>3. Dropped + i >= End(Images) => Images < Len(stream.ends)
  <2> SUFFICES ASSUME Dropped + i >= End(Images), Images = Len(stream.ends) PROVE FALSE
    BY <1>1
  <2>1. End(Len(stream.ends)) = Len(Input)
    BY StreamFacts DEF InBounds
  <2>2. End(Images) = Len(Input)
    BY <2>1
  <2> QED
    BY <2>2, <1>1, <1>2
<1>4. Images > 0 => Input[End(Images) - 1] = FF /\ Input[End(Images)] = EOI
  BY <1>1, ImageMarked DEF InBounds
<1>5. Images < Len(stream.ends) =>
        Input[End(Images) + 1] = FF /\ Input[End(Images) + 2] = SOI
  <2> SUFFICES ASSUME Images < Len(stream.ends)
               PROVE  Input[End(Images) + 1] = FF /\ Input[End(Images) + 2] = SOI
    OBVIOUS
  <2>1. Images + 1 \in 1 .. Len(stream.ends) /\ (Images + 1) - 1 = Images
    BY <1>1
  <2> QED
    BY <2>1, ImageMarked DEF InBounds
<1>6. ASSUME Dropped + i = End(Images) - 2 PROVE buf[i] = FF
  <2>1. Images > 0 /\ Dropped + i + 1 = End(Images) - 1
    BY <1>1, <1>6
  <2> QED
    BY <2>1, <1>2, <1>4
<1>7. ASSUME Dropped + i = End(Images) - 1 PROVE buf[i] = EOI
  <2>1. Images > 0 /\ Dropped + i + 1 = End(Images)
    BY <1>1, <1>7
  <2> QED
    BY <2>1, <1>2, <1>4
<1>8. ASSUME Dropped + i = End(Images) PROVE Images < Len(stream.ends) /\ buf[i] = FF
  <2>1. Images < Len(stream.ends) /\ Dropped + i + 1 = End(Images) + 1
    BY <1>1, <1>3, <1>8
  <2> QED
    BY <2>1, <1>2, <1>5
<1>9. ASSUME Dropped + i = End(Images) + 1 PROVE Images < Len(stream.ends) /\ buf[i] = SOI
  <2>1. Images < Len(stream.ends) /\ Dropped + i + 1 = End(Images) + 2
    BY <1>1, <1>3, <1>9
  <2> QED
    BY <2>1, <1>2, <1>5
<1>10. Dropped + i > End(Images) => Images < Len(stream.ends)
  BY <1>1, <1>3
<1> QED
  BY <1>6, <1>7, <1>8, <1>9, <1>10

-----------------------------------------------------------------------------
(* The steps, as long as nothing worse happens than a cut.                  *)

\* What a step leaves as it is that puts no frame.
LEMMA CutKept ==
    ASSUME UNCHANGED <<start, frames>>
    PROVE  /\ Images' = Images /\ Input' = Input /\ Pictures' = Pictures
           /\ End(Images)' = End(Images) /\ End(Images + 1)' = End(Images + 1)
           /\ End(Images - 1)' = End(Images - 1)
           /\ Len(stream.ends)' = Len(stream.ends) /\ interlaced' = interlaced
<1>1. stream' = stream /\ options' = options /\ frames' = frames
  BY DEF start
<1>2. Images' = Images /\ Input' = Input /\ interlaced' = interlaced
  BY <1>1 DEF Images, Input, interlaced
<1>3. Pictures' = Pictures
  BY <1>1, <1>2 DEF Pictures, End
<1> QED
  BY <1>1, <1>2, <1>3 DEF End

LEMMA ImagesInvKept ==
    ASSUME ImagesInv, UNCHANGED <<start, frames>>,
           phase' = "ended" => taken' = Len(Input),
           Images < Len(stream.ends) =>
             End(Images + 1) > (IF Scanning' THEN Dropped' + j' + 1 ELSE taken')
    PROVE  ImagesInv'
<1>1. /\ Images' = Images /\ Input' = Input /\ Pictures' = Pictures
      /\ End(Images + 1)' = End(Images + 1) /\ Len(stream.ends)' = Len(stream.ends)
  BY CutKept
<1>2. frames' = frames
  OBVIOUS
<1>3. \A i \in DOMAIN frames' :
        BeginsImage(frames'[i]) =>
          IsPrefix(Front(frames'[i].f1), Pictures'[ImagesIn(frames', i)])
  BY <1>1, <1>2 DEF ImagesInv
<1> QED
  BY <1>1, <1>3 DEF ImagesInv

\* Outside a scan, what the invariant says is not of the scan.
LEMMA CutAtRest ==
    ASSUME InBounds, CutAtMost, ~Scanning, ~Scanning', dominant_field',
           UNCHANGED <<start, frames, taken, buf, buf_ptr, move_start, start_of_frame>>,
           phase' \in {"read", "ended"} => move_start = -1,
           phase' = "ended" => taken = Len(Input)
    PROVE  CutAtMost'
<1>1. /\ Images' = Images /\ Input' = Input
      /\ End(Images)' = End(Images) /\ End(Images - 1)' = End(Images - 1)
  BY CutKept
<1>2. Dropped' = Dropped /\ KeptFrom' = KeptFrom
  BY DEF Dropped, KeptFrom
<1>3. KeptInv'
  BY <1>1, <1>2 DEF CutAtMost, KeptInv
<1>4. ImagesInv'
  BY ImagesInvKept DEF CutAtMost, ImagesInv
<1>5. CutStartInv'
  <2>1. TailStart' <=> TailStart
    BY <1>1, <1>2 DEF TailStart
  <2> QED
    BY <2>1, <1>1, <1>2 DEF CutAtMost, CutStartInv
<1> QED
  BY <1>3, <1>4, <1>5 DEF CutAtMost

LEMMA InitCut == Init => CutAtMost
<1> SUFFICES ASSUME Init PROVE CutAtMost
  OBVIOUS
<1>1. InBounds /\ TypeOK
  BY InitInBounds DEF InBounds
<1>2. frames = <<>> /\ Len(frames) = 0 /\ DOMAIN frames = {}
  BY DEF Init
<1>3. Images = 0
  <2>1. {h \in 1 .. 0 : BeginsImage(frames[h])} = {}
    OBVIOUS
  <2> QED
    BY <2>1, <1>2, FS_EmptySet DEF Images, ImagesIn
<1>4. Dropped = 0 /\ KeptFrom = 0 /\ End(0) = 0 /\ ~Scanning
  BY DEF Init, Dropped, KeptFrom, End, EndOf, Scanning
<1>5. KeptInv
  BY <1>3, <1>4 DEF Init, KeptInv
<1>6. ImagesInv
  <2>1. Len(stream.ends) \in Nat
    BY <1>1, StreamFacts
  <2>2. ASSUME 0 < Len(stream.ends) PROVE End(1) > 0
    <3>1. 0 \in 0 .. Len(stream.ends) /\ 1 \in 0 .. Len(stream.ends) /\ 0 < 1
      BY <2>1, <2>2
    <3>2. End(0) + 4 <= End(1) /\ End(1) \in 0 .. Len(Input) /\ Len(Input) \in Nat
      BY <1>1, <3>1, StreamFacts
    <3> QED
      BY <1>4, <3>2
  <2>3. Images + 1 = 1
    BY <1>3
  <2> QED
    BY <1>2, <1>3, <1>4, <2>1, <2>2, <2>3 DEF Init, ImagesInv
<1>7. CutStartInv
  BY <1>3, <1>4 DEF Init, CutStartInv, TailStart
<1> QED
  BY <1>5, <1>6, <1>7 DEF Init, CutAtMost

LEMMA ReadCut ==
    ASSUME InBounds, CutAtMost, Read
    PROVE  CutAtMost'
<1>1. PICK n \in 1 .. MAX - buf_ptr :
        /\ taken + n <= Len(Input)
        /\ taken' = taken + n
        /\ buf_ptr' = buf_ptr + n
        /\ buf' = [i \in -1 .. MAX |-> IF i \in buf_ptr .. buf_ptr + n - 1
                                       THEN Input[taken + 1 + (i - buf_ptr)]
                                       ELSE buf[i]]
  BY DEF Read
<1>2. /\ phase = "read" /\ phase' = "scan" /\ j' = 0
      /\ UNCHANGED <<start, move_start, start_of_frame, dominant_field, frames>>
  BY DEF Read, marks
<1>3. /\ Images' = Images /\ Input' = Input
      /\ End(Images)' = End(Images) /\ End(Images - 1)' = End(Images - 1)
  BY <1>2, CutKept
<1>4. /\ n \in Nat \ {0} /\ buf_ptr \in Int /\ -1 <= buf_ptr /\ buf_ptr <= MAX /\ MAX \in Nat
      /\ taken \in Nat /\ Dropped \in Nat /\ Dropped + buf_ptr = taken
      /\ start_of_frame \in Int /\ -1 <= start_of_frame
  <2>1. /\ buf_ptr \in Int /\ -1 <= buf_ptr /\ buf_ptr <= MAX /\ MAX \in Nat
        /\ taken \in Nat /\ Dropped \in Nat /\ Dropped + buf_ptr = taken
        /\ start_of_frame \in Int /\ -1 <= start_of_frame
    BY CutPlaces
  <2> QED
    BY <2>1
<1>5. ~Scanning /\ (Scanning' <=> 0 < buf_ptr') /\ Dropped' = Dropped
  <2>1. Dropped' = Dropped
    BY <1>1, <1>4 DEF Dropped
  <2> QED
    BY <2>1, <1>2 DEF Scanning
<1>6. move_start = -1 /\ KeptFrom = Dropped /\ KeptFrom' = Dropped
  <2>1. move_start = -1 /\ move_start' = -1
    BY <1>2 DEF CutAtMost, KeptInv
  <2> QED
    BY <2>1, <1>4, <1>5 DEF KeptFrom
<1>7. ASSUME NEW i \in 0 .. buf_ptr - 1
      PROVE  buf'[i] = buf[i]
  <2>1. i \in -1 .. MAX /\ i \notin buf_ptr .. buf_ptr + n - 1
    BY <1>4
  <2> QED
    BY <2>1, <1>1
<1>8. KeptInv'
  <2>1. buf_ptr' <= taken'
    BY <1>1, <1>4
  <2>2. ASSUME NEW i \in 0 .. buf_ptr + n - 1
        PROVE  buf'[i] = Input[Dropped + i + 1]
    <3>1. i \in -1 .. MAX
      BY <1>4
    <3>2. CASE i \in buf_ptr .. buf_ptr + n - 1
      <4>1. buf'[i] = Input[taken + 1 + (i - buf_ptr)]
        BY <1>1, <3>1, <3>2
      <4>2. taken + 1 + (i - buf_ptr) = Dropped + i + 1
        BY <1>4
      <4> QED
        BY <4>1, <4>2
    <3>3. CASE i \notin buf_ptr .. buf_ptr + n - 1
      <4>1. i \in 0 .. buf_ptr - 1
        BY <1>4, <3>3
      <4> QED
        BY <4>1, <1>7, CutByteRead
    <3> QED
      BY <3>2, <3>3
  <2>3. \A i \in 0 .. buf_ptr' - 1 : buf'[i] = Input'[Dropped' + i + 1]
    <3>1. buf_ptr' - 1 = buf_ptr + n - 1
      BY <1>1, <1>4
    <3> QED
      BY <3>1, <2>2, <1>3, <1>5
  <2>4. /\ KeptFrom <= End(Images)
        /\ Images > 0 => End(Images - 1) < KeptFrom
    BY DEF CutAtMost, KeptInv
  <2>5. phase' \notin {"read", "ended"} /\ move_start' = -1
    BY <1>2, <1>6
  <2> QED
    BY <2>1, <2>3, <2>4, <2>5, <1>3, <1>6 DEF KeptInv
<1>9. /\ End(Images) \in Nat /\ Dropped <= End(Images) /\ Images \in Nat
      /\ Images < Len(stream.ends) => End(Images + 1) \in Nat /\ End(Images) + 4 <= End(Images + 1)
  BY <1>6, CutEnds
<1>10. ImagesInv'
  <2>1. ASSUME Images < Len(stream.ends)
        PROVE  End(Images + 1) > (IF Scanning' THEN Dropped' + j' + 1 ELSE taken')
    <3>1. CASE 0 < buf_ptr'
      <4>1. End(Images + 1) > Dropped + 1
        BY <2>1, <1>4, <1>9
      <4> QED
        BY <4>1, <3>1, <1>2, <1>4, <1>5
    <3>2. CASE ~(0 < buf_ptr')
      <4>1. taken' <= Dropped
        BY <3>2, <1>1, <1>4
      <4>2. End(Images + 1) > taken'
        BY <4>1, <2>1, <1>1, <1>4, <1>9
      <4> QED
        BY <4>2, <3>2, <1>5
    <3> QED
      BY <3>1, <3>2
  <2>2. phase' # "ended"
    BY <1>2
  <2> QED
    BY <2>1, <2>2, <1>2, ImagesInvKept DEF CutAtMost
<1>11. CutStartInv'
  <2> DEFINE e == End(Images)
  <2>1. /\ Dropped = e => start_of_frame = -1 \/ taken > e
        /\ Dropped < e => TailStart
    BY <1>5, <1>6 DEF CutAtMost, CutStartInv
  <2>2. ASSUME Dropped < e PROVE TailStart'
    <3> SUFFICES ASSUME start_of_frame # -1
                 PROVE  /\ start_of_frame < buf_ptr'
                        /\ Dropped + start_of_frame < e => buf'[start_of_frame] = FF
      BY <1>2, <1>3, <1>5 DEF TailStart
    <3>1. /\ start_of_frame < buf_ptr
          /\ Dropped + start_of_frame < e => buf[start_of_frame] = FF
      BY <2>1, <2>2 DEF TailStart
    <3>2. start_of_frame \in 0 .. buf_ptr - 1
      BY <3>1, <1>4
    <3> QED
      BY <3>1, <3>2, <1>1, <1>4, <1>7
  <2>3. ASSUME Dropped \in {e - 1, e}
        PROVE  start_of_frame = -1 \/ taken' >= e + 2
    <3> SUFFICES ASSUME start_of_frame # -1 PROVE taken' >= e + 2
      OBVIOUS
    <3>1. CASE Dropped = e
      BY <3>1, <2>1, <1>1, <1>4, <1>9
    <3>2. CASE Dropped = e - 1
      <4>1. /\ start_of_frame < buf_ptr
            /\ Dropped + start_of_frame < e => buf[start_of_frame] = FF
        BY <3>2, <2>1, <1>9 DEF TailStart
      <4>2. start_of_frame \in 0 .. buf_ptr - 1
        BY <4>1, <1>4
      <4>3. Dropped + start_of_frame = e - 1 => buf[start_of_frame] = EOI
        BY <4>2, CutBytes
      <4>4. FF # EOI
        BY DEF FF, EOI
      <4>5. start_of_frame # 0
        <5> SUFFICES ASSUME start_of_frame = 0 PROVE FALSE
          OBVIOUS
        <5>1. Dropped + start_of_frame = e - 1 /\ Dropped + start_of_frame < e
          BY <3>2, <1>4, <1>9
        <5> QED
          BY <5>1, <4>1, <4>3, <4>4
      <4> QED
        BY <4>2, <4>5, <3>2, <1>1, <1>4, <1>9
    <3> QED
      BY <2>3, <3>1, <3>2
  <2>4. Dropped' + j' = Dropped /\ ~(Dropped > e)
    BY <1>2, <1>4, <1>5, <1>9
  <2>5. Dropped < e - 1 => move_start' = -1 /\ TailStart'
    BY <2>2, <1>2, <1>4, <1>6, <1>9
  <2>6. ASSUME ~Scanning' PROVE start_of_frame = -1
    <3>1. buf_ptr = -1 /\ taken < Dropped
      BY <2>6, <1>1, <1>4, <1>5
    <3> SUFFICES ASSUME start_of_frame # -1 PROVE FALSE
      OBVIOUS
    <3>2. Dropped < e
      BY <3>1, <2>1, <1>4, <1>9
    <3> QED
      BY <3>1, <3>2, <2>1, <1>4 DEF TailStart
  <2>7. End(Images)' = e /\ start_of_frame' = start_of_frame
    BY <1>2, <1>3
  <2>8. ~Scanning' => TailStart'
    BY <2>6, <2>7 DEF TailStart
  <2> HIDE DEF e
  <2>9. Scanning' =>
          /\ Dropped' + j' > e => start_of_frame' = e - Dropped'
          /\ Dropped' + j' \in {e - 1, e} => start_of_frame' = -1 \/ taken' >= e + 2
          /\ Dropped' + j' < e - 1 => move_start' = -1 /\ TailStart'
    BY <2>3, <2>4, <2>5, <2>7
  <2>10. ~Scanning' =>
          /\ KeptFrom' = e => start_of_frame' = -1 \/ taken' > e
          /\ KeptFrom' < e => TailStart' /\ (move_start' # -1 => start_of_frame' = -1)
    BY <2>6, <2>7, <2>8
  <2> QED
    BY <2>7, <2>9, <2>10 DEF CutStartInv
<1> QED
  BY <1>2, <1>8, <1>10, <1>11 DEF CutAtMost

LEMMA EndOfInputCut ==
    ASSUME InBounds, CutAtMost, EndOfInput, upset' \subseteq {"cut"}
    PROVE  CutAtMost'
<1>1. /\ phase = "read" /\ phase' = "ended"
      /\ UNCHANGED <<start, taken, buf, buf_ptr, move_start, start_of_frame, dominant_field,
                     frames>>
  BY DEF EndOfInput, buffer, marks
<1>2. taken = Len(Input)
  <2>1. ~(taken < Len(Input))
    BY DEF EndOfInput
  <2> QED
    BY <2>1, CutPlaces
<1>3. move_start = -1 /\ dominant_field
  BY <1>1 DEF CutAtMost, KeptInv
<1>4. ~Scanning /\ ~Scanning'
  BY <1>1 DEF Scanning
<1> QED
  BY <1>1, <1>2, <1>3, <1>4, CutAtRest

LEMMA ReadFailsCut ==
    ASSUME InBounds, CutAtMost, ReadFails
    PROVE  CutAtMost'
<1>1. /\ phase = "read" /\ phase' = "failed" /\ dominant_field
      /\ UNCHANGED <<start, taken, buf, buf_ptr, move_start, start_of_frame, dominant_field,
                     frames>>
  BY DEF ReadFails, buffer, marks, CutAtMost
<1>2. ~Scanning /\ ~Scanning'
  BY <1>1 DEF Scanning
<1> QED
  BY <1>1, <1>2, CutAtRest

LEMMA ScanDoneCut ==
    ASSUME InBounds, CutAtMost, ScanDone
    PROVE  CutAtMost'
<1>1. /\ phase = "scan" /\ phase' = "move" /\ j >= buf_ptr
      /\ UNCHANGED <<start, taken, buf, buf_ptr, move_start, start_of_frame, dominant_field,
                     frames>>
  BY DEF ScanDone, buffer, marks
<1>2. dominant_field
  BY DEF CutAtMost
<1>3. ~Scanning /\ ~Scanning'
  <2>1. ~(j < buf_ptr)
    BY <1>1, CutPlaces
  <2> QED
    BY <2>1, <1>1 DEF Scanning
<1> QED
  BY <1>1, <1>2, <1>3, CutAtRest

LEMMA MoveNoneCut ==
    ASSUME InBounds, CutAtMost, MoveNone
    PROVE  CutAtMost'
<1>1. /\ phase = "move" /\ phase' = "read" /\ move_start = -1
      /\ UNCHANGED <<start, taken, buf, buf_ptr, move_start, start_of_frame, dominant_field,
                     frames>>
  BY DEF MoveNone, buffer, marks
<1>2. dominant_field
  BY DEF CutAtMost
<1>3. ~Scanning /\ ~Scanning'
  BY <1>1 DEF Scanning
<1> QED
  BY <1>1, <1>2, <1>3, CutAtRest

LEMMA MoveCut ==
    ASSUME InBounds, CutAtMost, Move
    PROVE  CutAtMost'
<1>1. /\ phase = "move" /\ phase' = "read"
      /\ move_start # -1 /\ move_start < MAX /\ move_start' = -1
      /\ buf_ptr' = buf_ptr - move_start
      /\ UNCHANGED <<start, start_of_frame, dominant_field, frames, taken>>
      /\ buf' = [i \in -1 .. MAX |-> IF i \in 0 .. MAX - move_start - 1
                                     THEN buf[i + move_start] ELSE buf[i]]
  BY DEF Move
<1>2. /\ Images' = Images /\ Input' = Input
      /\ End(Images)' = End(Images) /\ End(Images - 1)' = End(Images - 1)
  BY <1>1, CutKept
<1>3. /\ MAX \in Nat /\ move_start \in Nat /\ buf_ptr \in Int /\ buf_ptr <= MAX
      /\ taken \in Nat /\ Dropped \in Nat /\ Dropped + buf_ptr = taken
  <2>1. /\ MAX \in Nat /\ move_start \in Int /\ -1 <= move_start /\ buf_ptr \in Int
        /\ buf_ptr <= MAX /\ taken \in Nat /\ Dropped \in Nat /\ Dropped + buf_ptr = taken
    BY CutPlaces
  <2> QED
    BY <2>1, <1>1
<1>4. Dropped' = Dropped + move_start
  BY <1>1, <1>3 DEF Dropped
<1>5. KeptFrom = Dropped + move_start /\ KeptFrom' = KeptFrom
  <2>1. KeptFrom = Dropped + move_start
    BY <1>1 DEF KeptFrom
  <2>2. KeptFrom' = Dropped' + 0
    BY <1>1 DEF KeptFrom
  <2> QED
    BY <2>1, <2>2, <1>3, <1>4
<1>6. ~Scanning /\ ~Scanning'
  BY <1>1 DEF Scanning
<1>7. KeptInv'
  <2>1. buf_ptr' <= taken'
    BY <1>1, <1>3
  <2>2. ASSUME NEW i \in 0 .. buf_ptr - move_start - 1
        PROVE  buf'[i] = Input[(Dropped + move_start) + i + 1]
    <3>1. i \in -1 .. MAX /\ i \in 0 .. MAX - move_start - 1 /\ i + move_start \in 0 .. buf_ptr - 1
      BY <1>1, <1>3
    <3>2. buf'[i] = buf[i + move_start]
      BY <1>1, <3>1
    <3>3. buf[i + move_start] = Input[Dropped + (i + move_start) + 1]
      BY <3>1, CutByteRead
    <3>4. Dropped + (i + move_start) + 1 = (Dropped + move_start) + i + 1
      BY <1>3
    <3> QED
      BY <3>2, <3>3, <3>4
  <2>3. \A i \in 0 .. buf_ptr' - 1 : buf'[i] = Input'[Dropped' + i + 1]
    BY <2>2, <1>1, <1>2, <1>4
  <2>4. KeptFrom' <= End(Images)' /\ (Images' > 0 => End(Images - 1)' < KeptFrom')
    BY <1>2, <1>5 DEF CutAtMost, KeptInv
  <2> QED
    BY <2>1, <2>3, <2>4, <1>1, <1>6 DEF KeptInv
<1>8. ImagesInv'
  BY <1>1, <1>6, ImagesInvKept DEF CutAtMost, ImagesInv
<1>9. CutStartInv'
  <2>1. /\ KeptFrom = End(Images) => start_of_frame = -1 \/ taken > End(Images)
        /\ KeptFrom < End(Images) => start_of_frame = -1
    BY <1>1, <1>6 DEF CutAtMost, CutStartInv
  <2>2. start_of_frame = -1 => TailStart'
    BY <1>1 DEF TailStart
  <2> QED
    BY <2>1, <2>2, <1>1, <1>2, <1>5, <1>6 DEF CutStartInv
<1> QED
  BY <1>1, <1>7, <1>8, <1>9 DEF CutAtMost

\* In numbers, what the steps of the scan need to know.
LEMMA CutScanPlaces ==
    ASSUME InBounds, CutAtMost, Scanning
    PROVE  /\ j \in Nat /\ buf_ptr \in Int /\ j < buf_ptr /\ j \in 0 .. buf_ptr - 1
           /\ Dropped \in Nat /\ taken \in Nat /\ Dropped + buf_ptr = taken
           /\ End(Images) \in Nat /\ KeptFrom \in Nat /\ KeptFrom <= End(Images)
           /\ start_of_frame \in Int /\ -1 <= start_of_frame /\ move_start \in Int
           /\ move_start # -1 => KeptFrom = End(Images)
           /\ move_start = -1 => KeptFrom = Dropped
<1>1. /\ j \in Nat /\ buf_ptr \in Int /\ j < buf_ptr
      /\ Dropped \in Nat /\ taken \in Nat /\ Dropped + buf_ptr = taken
      /\ start_of_frame \in Int /\ -1 <= start_of_frame /\ move_start \in Int
      /\ KeptFrom \in Nat
  BY CutPlaces
<1>2. End(Images) \in Nat /\ KeptFrom <= End(Images)
  BY CutEnds
<1>3. j \in 0 .. buf_ptr - 1
  BY <1>1
<1>4. move_start # -1 => KeptFrom = End(Images)
  BY DEF CutAtMost, KeptInv
<1>5. move_start = -1 => KeptFrom = Dropped
  BY <1>1 DEF KeptFrom
<1> QED
  BY <1>1, <1>2, <1>3, <1>4, <1>5

\* What the invariant says of the start in mind during a scan.
LEMMA CutScanStart ==
    ASSUME CutAtMost, Scanning
    PROVE  /\ Dropped + j > End(Images) => start_of_frame = End(Images) - Dropped
           /\ Dropped + j = End(Images) - 1 =>
                start_of_frame = -1 \/ taken >= End(Images) + 2
           /\ Dropped + j = End(Images) => start_of_frame = -1 \/ taken >= End(Images) + 2
           /\ Dropped + j < End(Images) - 1 => move_start = -1 /\ TailStart
  BY DEF CutAtMost, CutStartInv

\* The end of the next image is not passed over: the scan has its start in mind.
LEMMA CutEndSeen ==
    ASSUME InBounds, CutAtMost, Scanning, j + 1 < buf_ptr,
           Images < Len(stream.ends), End(Images + 1) = Dropped + j + 2
    PROVE  start_of_frame # -1 /\ buf[j] = FF /\ buf[j + 1] = EOI
<1>1. /\ j \in Nat /\ buf_ptr \in Int /\ Dropped \in Nat /\ End(Images) \in Nat
      /\ Images \in Nat /\ Len(stream.ends) \in Nat
      /\ End(Images) + 4 <= End(Images + 1) /\ Dropped <= End(Images)
  <2>1. /\ j \in Nat /\ buf_ptr \in Int /\ Dropped \in Nat /\ End(Images) \in Nat
        /\ KeptFrom \in Nat /\ KeptFrom <= End(Images) /\ Dropped <= KeptFrom
    BY CutScanPlaces, CutPlaces
  <2>2. Dropped <= End(Images)
    BY <2>1
  <2> QED
    BY <2>1, <2>2, CutEnds
<1>2. Dropped + j > End(Images)
  BY <1>1
<1>3. start_of_frame # -1
  BY <1>1, <1>2, CutScanStart
<1>4. Input[End(Images + 1) - 1] = FF /\ Input[End(Images + 1)] = EOI
  <2>1. Images + 1 \in 1 .. Len(stream.ends)
    BY <1>1
  <2> QED
    BY <2>1, ImageMarked DEF InBounds
<1>5. /\ j \in 0 .. buf_ptr - 1 /\ j + 1 \in 0 .. buf_ptr - 1
      /\ End(Images + 1) - 1 = Dropped + j + 1 /\ End(Images + 1) = Dropped + (j + 1) + 1
  BY <1>1
<1>6. buf[j] = Input[Dropped + j + 1] /\ buf[j + 1] = Input[Dropped + (j + 1) + 1]
  BY <1>5, CutByteRead
<1>7. buf[j] = FF /\ buf[j + 1] = EOI
  BY <1>4, <1>5, <1>6
<1> QED
  BY <1>3, <1>7

\* The scan goes on past a place where no image ends, as far as that concerns
\* the buffer and the images.
LEMMA CutPassed ==
    ASSUME InBounds, CutAtMost, Scanning, phase' = "scan", j' = j + 1,
           UNCHANGED <<start, buffer, move_start, frames>>,
           Images < Len(stream.ends) /\ j + 1 < buf_ptr => End(Images + 1) # Dropped + j + 2
    PROVE  KeptInv' /\ ImagesInv'
<1>1. /\ Images' = Images /\ Input' = Input
      /\ End(Images)' = End(Images) /\ End(Images - 1)' = End(Images - 1)
  BY CutKept
<1>2. /\ taken' = taken /\ buf' = buf /\ buf_ptr' = buf_ptr
      /\ Dropped' = Dropped /\ KeptFrom' = KeptFrom /\ (Scanning' <=> j + 1 < buf_ptr)
  BY DEF buffer, Dropped, KeptFrom, Scanning
<1>3. KeptInv'
  <2>1. phase' \notin {"read", "ended"}
    OBVIOUS
  <2>2. move_start' # -1 => KeptFrom = End(Images)
    BY CutScanPlaces
  <2> QED
    BY <2>1, <2>2, <1>1, <1>2 DEF CutAtMost, KeptInv
<1>4. ASSUME Images < Len(stream.ends)
      PROVE  End(Images + 1) > (IF Scanning' THEN Dropped' + j' + 1 ELSE taken')
  <2>1. /\ j \in Nat /\ buf_ptr \in Int /\ Dropped \in Nat /\ Dropped + buf_ptr = taken
        /\ j < buf_ptr /\ End(Images + 1) \in Nat
    BY <1>4, CutScanPlaces, CutEnds
  <2>2. End(Images + 1) > Dropped + j + 1
    BY <1>4 DEF CutAtMost, ImagesInv
  <2>3. CASE j + 1 < buf_ptr
    <3>1. End(Images + 1) # Dropped + j + 2
      BY <2>3, <1>4
    <3>2. Dropped' + j' + 1 = Dropped + j + 2
      BY <1>2, <2>1
    <3> QED
      BY <3>1, <3>2, <2>1, <2>2, <2>3, <1>2
  <2>4. CASE ~(j + 1 < buf_ptr)
    <3>1. taken = Dropped + j + 1
      BY <2>1, <2>4
    <3> QED
      BY <3>1, <2>2, <2>4, <1>2
  <2> QED
    BY <2>3, <2>4
<1>5. ImagesInv'
  BY <1>4, ImagesInvKept DEF CutAtMost
<1> QED
  BY <1>3, <1>5

LEMMA ScanStartCut ==
    ASSUME InBounds, CutAtMost, ScanStart
    PROVE  CutAtMost'
<1> DEFINE e == End(Images)
<1>1. /\ phase = "scan" /\ phase' = "scan" /\ j < buf_ptr /\ j' = j + 1
      /\ buf[j] = FF /\ buf[j + 1] = SOI /\ start_of_frame' = j
      /\ UNCHANGED <<start, buffer, move_start, dominant_field, frames>>
  BY DEF ScanStart, At
<1>2. Scanning
  BY <1>1 DEF Scanning
<1>3. KeptInv' /\ ImagesInv'
  <2>1. SOI # EOI
    BY DEF SOI, EOI
  <2>2. Images < Len(stream.ends) /\ j + 1 < buf_ptr => End(Images + 1) # Dropped + j + 2
    BY <2>1, <1>1, <1>2, CutEndSeen
  <2> QED
    BY <2>2, <1>1, <1>2, CutPassed
<1>4. /\ j \in Nat /\ buf_ptr \in Int /\ j \in 0 .. buf_ptr - 1
      /\ Dropped \in Nat /\ taken \in Nat /\ Dropped + buf_ptr = taken
      /\ e \in Nat /\ KeptFrom \in Nat
      /\ move_start # -1 => KeptFrom = e
      /\ move_start = -1 => KeptFrom = Dropped
  BY <1>2, CutScanPlaces
<1>5. /\ End(Images)' = e /\ Dropped' = Dropped /\ KeptFrom' = KeptFrom
      /\ taken' = taken /\ buf' = buf /\ buf_ptr' = buf_ptr
      /\ (Scanning' <=> j + 1 < buf_ptr)
  <2>1. End(Images)' = e
    BY <1>1, CutKept
  <2> QED
    BY <2>1, <1>1 DEF buffer, Dropped, KeptFrom, Scanning
<1>6. ASSUME j + 1 < buf_ptr PROVE Dropped + j = e
  <2>1. Images > 0 => End(Images - 1) < Dropped + j
    BY <1>2, ScanBehind
  <2>2. j \in 0 .. j
    BY <1>4
  <2> QED
    BY <2>1, <2>2, <1>1, <1>2, <1>6, CutStartMarker
<1>7. ASSUME ~(j + 1 < buf_ptr)
      PROVE  /\ KeptFrom = e => taken > e
             /\ KeptFrom < e => TailStart' /\ move_start = -1
  <2>1. taken = Dropped + j + 1
    BY <1>1, <1>4, <1>7
  <2>2. Dropped + j # e - 1
    <3>1. Dropped + j = e - 1 => buf[j] = EOI
      BY <1>4, CutBytes
    <3> QED
      BY <3>1, <1>1 DEF FF, EOI
  <2>3. Dropped + j < e - 1 => move_start = -1
    BY <1>2, CutScanStart
  <2>4. KeptFrom = e => taken > e
    <3> HIDE DEF e
    <3> QED
      BY <2>1, <2>2, <2>3, <1>4
  <2>5. TailStart'
    BY <1>1, <1>5 DEF TailStart
  <2>6. KeptFrom < e => move_start = -1
    BY <1>4
  <2> QED
    BY <2>4, <2>5, <2>6
<1>8. CutStartInv'
  <2>1. ASSUME j + 1 < buf_ptr
        PROVE  Dropped' + j' = e + 1 /\ start_of_frame' = e - Dropped'
    BY <2>1, <1>1, <1>4, <1>5, <1>6
  <2> HIDE DEF e
  <2>2. Scanning' =>
          /\ start_of_frame' = e - Dropped'
          /\ Dropped' + j' \notin {e - 1, e} /\ ~(Dropped' + j' < e - 1)
    BY <2>1, <1>4, <1>5
  <2> QED
    BY <2>2, <1>1, <1>5, <1>7 DEF CutStartInv
<1> QED
  BY <1>1, <1>3, <1>8 DEF CutAtMost

LEMMA ScanOtherCut ==
    ASSUME InBounds, CutAtMost, ScanOther
    PROVE  CutAtMost'
<1> DEFINE e == End(Images)
<1>1. /\ phase = "scan" /\ phase' = "scan" /\ j < buf_ptr /\ j' = j + 1
      /\ ~(buf[j] = FF /\ buf[j + 1] = SOI)
      /\ ~(buf[j] = FF /\ buf[j + 1] = EOI /\ start_of_frame # -1)
      /\ UNCHANGED <<start, buffer, move_start, start_of_frame, dominant_field, frames>>
  BY DEF ScanOther, marks
<1>2. Scanning
  BY <1>1 DEF Scanning
<1>3. KeptInv' /\ ImagesInv'
  <2>1. Images < Len(stream.ends) /\ j + 1 < buf_ptr => End(Images + 1) # Dropped + j + 2
    BY <1>1, <1>2, CutEndSeen
  <2> QED
    BY <2>1, <1>1, <1>2, CutPassed
<1>4. /\ j \in Nat /\ buf_ptr \in Int /\ j \in 0 .. buf_ptr - 1
      /\ Dropped \in Nat /\ taken \in Nat /\ Dropped + buf_ptr = taken
      /\ e \in Nat /\ KeptFrom \in Nat
      /\ move_start # -1 => KeptFrom = e
      /\ move_start = -1 => KeptFrom = Dropped
  BY <1>2, CutScanPlaces
<1>5. /\ End(Images)' = e /\ Dropped' = Dropped /\ KeptFrom' = KeptFrom
      /\ taken' = taken /\ buf' = buf /\ buf_ptr' = buf_ptr
      /\ (Scanning' <=> j + 1 < buf_ptr) /\ (TailStart' <=> TailStart)
  <2>1. End(Images)' = e
    BY <1>1, CutKept
  <2>2. Dropped' = Dropped /\ taken' = taken /\ buf' = buf /\ buf_ptr' = buf_ptr
    BY <1>1 DEF buffer, Dropped
  <2>3. TailStart' <=> TailStart
    BY <2>1, <2>2, <1>1 DEF TailStart
  <2> QED
    BY <2>1, <2>2, <2>3, <1>1 DEF KeptFrom, Scanning
<1>6. /\ Dropped + j > e => start_of_frame = e - Dropped
      /\ Dropped + j = e - 1 => start_of_frame = -1 \/ taken >= e + 2
      /\ Dropped + j = e => start_of_frame = -1 \/ taken >= e + 2
      /\ Dropped + j < e - 1 => move_start = -1 /\ TailStart
  BY <1>2, CutScanStart
<1>7. ASSUME j + 1 < buf_ptr
      PROVE  /\ Dropped + j # e
             /\ Dropped + j = e - 2 => start_of_frame = -1
  <2>1. j + 1 \in 0 .. buf_ptr - 1
    BY <1>4, <1>7
  <2>2. ASSUME Dropped + j = e PROVE FALSE
    <3>1. Dropped + (j + 1) = e + 1
      BY <2>2, <1>4
    <3>2. buf[j] = FF /\ buf[j + 1] = SOI
      BY <2>1, <2>2, <3>1, <1>4, CutBytes
    <3> QED
      BY <3>2, <1>1
  <2>3. ASSUME Dropped + j = e - 2 PROVE start_of_frame = -1
    <3>1. Dropped + (j + 1) = e - 1
      BY <2>3, <1>4
    <3>2. buf[j] = FF /\ buf[j + 1] = EOI
      BY <2>1, <2>3, <3>1, <1>4, CutBytes
    <3> QED
      BY <3>2, <1>1
  <2> QED
    BY <2>2, <2>3
<1>8. ASSUME ~(j + 1 < buf_ptr)
      PROVE  /\ KeptFrom = e => start_of_frame = -1 \/ taken > e
             /\ KeptFrom < e => TailStart /\ move_start = -1
  <2>1. taken = Dropped + j + 1
    BY <1>1, <1>4, <1>8
  <2>2. KeptFrom = e => start_of_frame = -1 \/ taken > e
    <3> HIDE DEF e
    <3> QED
      BY <2>1, <1>4, <1>6
  <2>3. Dropped + j = e - 1 \/ Dropped + j = e => start_of_frame = -1
    <3> HIDE DEF e
    <3> QED
      BY <2>1, <1>4, <1>6
  <2>4. Dropped + j > e => start_of_frame < buf_ptr /\ ~(Dropped + start_of_frame < e)
    <3> HIDE DEF e
    <3> QED
      BY <1>4, <1>6
  <2>5. start_of_frame = -1 => TailStart
    BY DEF TailStart
  <2>6. Dropped + j > e => TailStart
    BY <2>4 DEF TailStart
  <2>7. Dropped + j < e - 1 \/ Dropped + j = e - 1 \/ Dropped + j = e \/ Dropped + j > e
    BY <1>4
  <2>8. TailStart
    BY <2>3, <2>5, <2>6, <2>7, <1>6
  <2>9. KeptFrom < e => move_start = -1
    BY <1>4
  <2> QED
    BY <2>2, <2>8, <2>9
<1>9. CutStartInv'
  <2> HIDE DEF e
  <2>1. Dropped' + j' = Dropped + j + 1
    BY <1>1, <1>4, <1>5
  <2>2. ASSUME j + 1 < buf_ptr
        PROVE  /\ Dropped + j + 1 > e => start_of_frame = e - Dropped
               /\ Dropped + j + 1 \in {e - 1, e} => start_of_frame = -1 \/ taken >= e + 2
               /\ Dropped + j + 1 < e - 1 => Dropped + j < e - 1
    BY <2>2, <1>4, <1>6, <1>7
  <2>3. Scanning' =>
          /\ Dropped' + j' > e => start_of_frame' = e - Dropped'
          /\ Dropped' + j' \in {e - 1, e} => start_of_frame' = -1 \/ taken' >= e + 2
          /\ Dropped' + j' < e - 1 => move_start' = -1 /\ TailStart'
    BY <2>1, <2>2, <1>1, <1>5, <1>6
  <2>4. ~Scanning' =>
          /\ KeptFrom' = e => start_of_frame' = -1 \/ taken' > e
          /\ KeptFrom' < e => TailStart' /\ (move_start' # -1 => start_of_frame' = -1)
    BY <1>1, <1>5, <1>8
  <2> QED
    BY <2>3, <2>4, <1>5 DEF CutStartInv
<1> QED
  BY <1>1, <1>3, <1>9 DEF CutAtMost

\* A sequence without its last element, and when it is a prefix.
LEMMA FrontPrefix ==
    ASSUME NEW S, NEW s \in Seq(S), NEW t \in Seq(S), s # <<>>, Len(s) - 1 <= Len(t),
           \A i \in 1 .. Len(s) - 1 : s[i] = t[i]
    PROVE  IsPrefix(Front(s), t)
<1> DEFINE n == Len(s) - 1
           f == SubSeq(s, 1, n)
<1>1. n \in Nat /\ Len(t) \in Nat
  BY EmptySeq
<1>2. f \in Seq(S) /\ Len(f) = n /\ \A i \in 1 .. n : f[i] = s[i]
  <2>1. 1 <= n + 1 /\ n <= Len(s) /\ 1 \in Int /\ n \in Int
    BY <1>1
  <2>2. \A i \in 1 .. n : s[i] \in S
    BY <1>1
  <2> HIDE DEF n
  <2>3. /\ f \in Seq(S) /\ Len(f) = n - 1 + 1
        /\ \A i \in 1 .. n - 1 + 1 : f[i] = s[1 + i - 1]
    BY <1>1, <2>1, <2>2, SubSeqProperties
  <2>4. n - 1 + 1 = n /\ \A i \in 1 .. n : 1 + i - 1 = i
    BY <1>1
  <2> HIDE DEF f
  <2> QED
    BY <2>3, <2>4
<1>3. Front(s) = f
  BY DEF Front
<1> HIDE DEF f, n
<1>4. \A i \in 1 .. n : f[i] = t[i]
  BY <1>2 DEF n
<1>5. n <= Len(t)
  BY DEF n
<1>6. SubSeq(f, 1, Len(f)) = SubSeq(t, 1, Len(f))
  BY <1>1, <1>2, <1>4, <1>5
<1> QED
  BY <1>2, <1>3, <1>5, <1>6 DEF IsPrefix

\* What is copied out, in numbers.
LEMMA ImageBytes ==
    ASSUME InBounds, phase = "scan", j < buf_ptr, start_of_frame # -1
    PROVE  /\ Len(Image) \in Nat
           /\ Len(Image) = (IF start_of_frame <= j + 2 THEN j + 2 - start_of_frame ELSE 0)
           /\ \A i \in 1 .. Len(Image) : Image[i] = buf[start_of_frame + i - 1]
<1> DEFINE n == j + 2 - start_of_frame
<1>1. j \in Int /\ start_of_frame \in Int
  BY DEF InBounds, TypeOK
<1>2. Image = [i \in 1 .. n |-> buf[start_of_frame + i - 1]]
  BY DEF Image
<1>3. Image \in Seq(Byte)
  BY ImageType
<1>4. DOMAIN Image = 1 .. n /\ DOMAIN Image = 1 .. Len(Image) /\ Len(Image) \in Nat
  <2>1. DOMAIN Image = 1 .. n
    BY <1>2
  <2>2. DOMAIN Image = 1 .. Len(Image) /\ Len(Image) \in Nat
    BY <1>3
  <2> QED
    BY <2>1, <2>2
<1>5. Len(Image) = (IF start_of_frame <= j + 2 THEN n ELSE 0)
  BY <1>1, <1>4
<1> QED
  BY <1>2, <1>4, <1>5

\* What is left of an image that was cut does not begin as an image does.
LEMMA TailIsNoImage ==
    ASSUME InBounds, CutAtMost, Scanning, Dropped + j < End(Images) - 1,
           buf[j] = FF, buf[j + 1] = EOI, start_of_frame # -1
    PROVE  ~(Len(Image) > 1 /\ Image[2] = SOI)
<1> DEFINE s == start_of_frame
<1> SUFFICES ASSUME Len(Image) > 1, Image[2] = SOI PROVE FALSE
  OBVIOUS
<1>1. /\ j \in Nat /\ buf_ptr \in Int /\ j < buf_ptr
      /\ Dropped \in Nat /\ End(Images) \in Nat
      /\ s \in Int /\ -1 <= s
  BY CutScanPlaces
<1>2. /\ Len(Image) = (IF s <= j + 2 THEN j + 2 - s ELSE 0)
      /\ \A i \in 1 .. Len(Image) : Image[i] = buf[s + i - 1]
  BY ImageBytes DEF Scanning
<1>3. s \in Nat /\ s <= j /\ 2 \in 1 .. Len(Image)
  BY <1>1, <1>2
<1>4. buf[s + 1] = SOI
  <2>1. s + 2 - 1 = s + 1
    BY <1>1
  <2> QED
    BY <2>1, <1>2, <1>3
<1>5. s # j
  BY <1>4 DEF SOI, EOI
<1>6. move_start = -1 /\ (Dropped + s < End(Images) => buf[s] = FF)
  BY CutScanStart DEF TailStart
<1>7. Dropped + s < End(Images) /\ s \in 0 .. j /\ s + 1 < buf_ptr
  BY <1>1, <1>3, <1>5
<1>8. Images > 0 => End(Images - 1) < Dropped + s
  <2>1. KeptFrom = Dropped
    BY <1>6, CutScanPlaces
  <2>2. Images > 0 => End(Images - 1) < Dropped /\ End(Images - 1) \in Nat
    BY <2>1, CutEnds
  <2> QED
    BY <2>2, <1>1, <1>3
<1>9. Dropped + s = End(Images)
  BY <1>4, <1>6, <1>7, <1>8, CutStartMarker
<1> QED
  BY <1>7, <1>9, <1>1, <1>3

\* Behind what is left of an image that was cut, what is copied out is the next
\* image, as far as it was read.
LEMMA ImageFront ==
    ASSUME InBounds, CutAtMost, Scanning, Dropped + j > End(Images)
    PROVE  /\ start_of_frame # -1 /\ Images < Len(stream.ends)
           /\ Len(Image) > 1 /\ Image[2] = SOI
           /\ IsPrefix(Front(Image), Pictures[Images + 1])
<1> DEFINE e == End(Images)
           a == End(Images + 1)
           s == start_of_frame
           d == Dropped
           p == SubSeq(Input, e + 1, a)
<1>1. /\ j \in Nat /\ buf_ptr \in Int /\ j < buf_ptr /\ j \in 0 .. buf_ptr - 1
      /\ d \in Nat /\ e \in Nat /\ KeptFrom \in Nat /\ KeptFrom <= e /\ d <= KeptFrom
  BY CutScanPlaces, CutPlaces
<1>2. s = e - d
  BY CutScanStart
<1>3. d + j > e
  OBVIOUS
<1>4. Images < Len(stream.ends)
  BY <1>1, CutBytes
<1>5. /\ a \in Nat /\ e + 4 <= a /\ a <= Len(Input) /\ Len(Input) \in Nat /\ Images \in Nat
      /\ Len(stream.ends) \in Nat
  BY <1>4, CutEnds, CutPlaces
<1>6. a > d + j + 1
  BY <1>4 DEF CutAtMost, ImagesInv
<1>7. Input \in Seq(Byte)
  BY StreamFacts DEF InBounds
<1>8. Pictures[Images + 1] = p
  <2>1. Images + 1 \in 1 .. Len(stream.ends) /\ (Images + 1) - 1 = Images
    BY <1>4, <1>5
  <2>2. Pictures[Images + 1] = SubSeq(Input, End((Images + 1) - 1) + 1, a)
    BY <2>1 DEF Pictures
  <2> QED
    BY <2>1, <2>2
<1>9. s + 1 \in 0 .. buf_ptr - 1 /\ buf[s + 1] = SOI
  <2>1. s + 1 \in 0 .. buf_ptr - 1 /\ d + (s + 1) = e + 1
    BY <1>1, <1>2, <1>3
  <2> QED
    BY <2>1, CutBytes
<1>10. \A i \in 0 .. buf_ptr - 1 : buf[i] = Input[d + i + 1]
  BY CutByteRead
<1> HIDE DEF e, a, s, d
<1>11. s # -1 /\ s \in Nat /\ s <= j + 2
  BY <1>1, <1>2, <1>3
<1>12. /\ Image \in Seq(Byte) /\ Len(Image) = j + 2 - s
       /\ \A i \in 1 .. Len(Image) : Image[i] = buf[s + i - 1]
  BY <1>11, ImageType, ImageBytes DEF s, Scanning
<1>13. Len(Image) > 1 /\ Image[2] = SOI
  <2>1. Len(Image) > 1 /\ 2 \in 1 .. Len(Image) /\ s + 2 - 1 = s + 1
    BY <1>1, <1>2, <1>3, <1>11, <1>12
  <2> QED
    BY <2>1, <1>9, <1>12
<1>14. /\ p \in Seq(Byte) /\ Len(p) = a - e
       /\ \A i \in 1 .. a - e : p[i] = Input[e + i]
  <2>1. e + 1 \in Int /\ a \in Int /\ e + 1 <= a /\ a - (e + 1) + 1 = a - e
    BY <1>1, <1>5
  <2>2. \A i \in (e + 1) .. a : Input[i] \in Byte
    <3>1. \A i \in (e + 1) .. a : i \in 1 .. Len(Input)
      BY <1>1, <1>5
    <3> QED
      BY <3>1, <1>7
  <2>3. \A i \in 1 .. a - e : (e + 1) + i - 1 = e + i
    BY <1>1, <1>5
  <2>4. /\ p \in Seq(Byte) /\ Len(p) = a - (e + 1) + 1
        /\ \A i \in 1 .. a - (e + 1) + 1 : p[i] = Input[(e + 1) + i - 1]
    BY <2>1, <2>2, SubSeqProperties
  <2> HIDE DEF p
  <2> QED
    BY <2>1, <2>3, <2>4
<1> HIDE DEF p
<1>15. ASSUME NEW i \in 1 .. Len(Image) - 1
       PROVE  Image[i] = p[i]
  <2>1. i \in Int /\ 1 <= i /\ i <= j + 1 - s /\ i \in 1 .. Len(Image) /\ i \in 1 .. a - e
    BY <1>1, <1>2, <1>5, <1>6, <1>11, <1>12
  <2>2. s + i - 1 \in 0 .. buf_ptr - 1 /\ d + (s + i - 1) + 1 = e + i
    BY <2>1, <1>1, <1>2, <1>11
  <2>3. Image[i] = buf[s + i - 1] /\ buf[s + i - 1] = Input[d + (s + i - 1) + 1]
    BY <2>1, <2>2, <1>10, <1>12
  <2>4. p[i] = Input[e + i]
    BY <2>1, <1>14
  <2> QED
    BY <2>2, <2>3, <2>4
<1>16. Len(Image) - 1 <= Len(p) /\ Image # <<>>
  BY <1>1, <1>2, <1>5, <1>6, <1>12, <1>13, <1>14
<1>17. IsPrefix(Front(Image), p)
  BY <1>12, <1>14, <1>15, <1>16, FrontPrefix
<1> QED
  BY <1>4, <1>8, <1>11, <1>13, <1>17 DEF s

\* The end of what is put is the end of an image or, in front of one, the end of
\* what was read.
LEMMA CutPut ==
    ASSUME InBounds, CutAtMost, Scanning, phase' = "scan", j' = j + 1,
           UNCHANGED <<start, buffer>>, start_of_frame' = -1, move_start' = j + 2,
           End(Images)' \in Nat, Dropped + j + 2 <= End(Images)',
           j + 1 < buf_ptr => Dropped + j + 2 = End(Images)',
           Images' > 0 => End(Images - 1)' \in Nat /\ End(Images - 1)' < Dropped + j + 2
    PROVE  KeptInv' /\ CutStartInv'
<1> DEFINE e == End(Images)'
<1>1. /\ j \in Nat /\ buf_ptr \in Int /\ Dropped \in Nat
  BY CutScanPlaces
<1>2. /\ taken' = taken /\ buf' = buf /\ buf_ptr' = buf_ptr /\ Input' = Input
      /\ Dropped' = Dropped /\ (Scanning' <=> j + 1 < buf_ptr)
  BY DEF buffer, start, Input, Dropped, Scanning
<1>3. KeptFrom' = Dropped + j + 2
  <2>1. move_start' # -1
    BY <1>1
  <2>2. KeptFrom' = Dropped' + move_start'
    BY <2>1 DEF KeptFrom
  <2> QED
    BY <2>2, <1>1, <1>2
<1>4. KeptInv'
  BY <1>2, <1>3 DEF CutAtMost, KeptInv
<1>5. TailStart'
  BY DEF TailStart
<1> HIDE DEF e
<1>6. e \in Nat /\ (j + 1 < buf_ptr => Dropped' + j' = e - 1)
  BY <1>1, <1>2 DEF e
<1>7. Scanning' => ~(Dropped' + j' > e) /\ ~(Dropped' + j' < e - 1)
  BY <1>2, <1>6
<1> QED
  BY <1>4, <1>5, <1>7 DEF CutStartInv, e

LEMMA ScanFrameCut ==
    ASSUME InBounds, InBounds', CutAtMost, ScanFrame
    PROVE  CutAtMost'
<1> DEFINE frame == [frame_buf EXCEPT !.f1 = Image, !.f2 = <<>>]
           e == End(Images)
           n == Len(frames)
<1>1. /\ phase = "scan" /\ phase' = "scan" /\ j < buf_ptr /\ j' = j + 1
      /\ buf[j] = FF /\ buf[j + 1] = EOI
      /\ start_of_frame # -1 /\ start_of_frame' = -1 /\ dominant_field /\ dominant_field'
      /\ frame_buf' = frame /\ frames' = Append(frames, frame) /\ move_start' = j + 2
      /\ UNCHANGED <<start, buffer>>
  BY DEF ScanFrame, PutFrame, At
<1>2. Scanning
  BY <1>1 DEF Scanning
<1>3. /\ frames \in Seq(Frame) /\ n \in Nat /\ frame_buf \in Frame /\ frame \in Frame
  BY <1>1 DEF InBounds, TypeOK
<1>4. frame.f1 = Image
  <2> DEFINE first == [frame_buf EXCEPT !.f1 = Image]
  <2>1. first.f1 = Image /\ DOMAIN first = {"interlaced", "odd_dominant", "f1", "f2"}
    BY <1>3 DEF Frame
  <2>2. frame = [first EXCEPT !.f2 = <<>>]
    OBVIOUS
  <2> HIDE DEF first
  <2> QED
    BY <2>1, <2>2
<1> HIDE DEF frame
<1>5. /\ Len(frames') = n + 1 /\ frames'[n + 1] = frame
      /\ \A i \in 1 .. n : frames'[i] = frames[i]
  BY <1>1, <1>3, AppendProperties
<1>6. /\ \A i \in 0 .. n : ImagesIn(frames', i) = ImagesIn(frames, i)
      /\ ImagesIn(frames', n + 1) = Images + (IF BeginsImage(frame) THEN 1 ELSE 0)
  BY <1>1, <1>3, ImagesInAppend DEF Images
<1>7. Images' = Images + (IF BeginsImage(frame) THEN 1 ELSE 0)
  <2>1. Images' = ImagesIn(frames', n + 1)
    BY <1>5 DEF Images
  <2> QED
    BY <2>1, <1>6
<1>8. stream' = stream /\ Input' = Input /\ Pictures' = Pictures /\ buf_ptr' = buf_ptr
      /\ taken' = taken /\ Dropped' = Dropped /\ (Scanning' <=> j + 1 < buf_ptr)
  <2>1. stream' = stream /\ Input' = Input /\ buf_ptr' = buf_ptr /\ taken' = taken
    BY <1>1 DEF start, buffer, Input
  <2>2. Pictures' = Pictures
    BY <2>1 DEF Pictures, End
  <2> QED
    BY <2>1, <2>2, <1>1 DEF Dropped, Scanning
<1>9. /\ j \in Nat /\ buf_ptr \in Int /\ j \in 0 .. buf_ptr - 1
      /\ Dropped \in Nat /\ taken \in Nat /\ Dropped + buf_ptr = taken /\ e \in Nat
  BY <1>2, CutScanPlaces
<1>10. /\ Images \in Nat /\ Len(stream.ends) \in Nat /\ Images <= Len(stream.ends)
       /\ Images < Len(stream.ends) => End(Images + 1) \in Nat /\ e + 4 <= End(Images + 1)
       /\ Images > 0 => End(Images - 1) \in Nat /\ End(Images - 1) < Dropped + j
  BY <1>2, CutEnds, ScanBehind
<1>11. Images < Len(stream.ends) => End(Images + 1) > Dropped + j + 1
  BY <1>2 DEF CutAtMost, ImagesInv
<1>12. j + 1 < buf_ptr =>
         \/ Dropped + j + 2 = e
         \/ Images < Len(stream.ends) /\ Dropped + j + 2 = End(Images + 1)
  BY <1>1, <1>2, CutEndMarker
<1>13. Dropped + j # e - 1
  <2>1. Dropped + j = e - 1 => buf[j] = EOI
    BY <1>9, CutBytes
  <2> QED
    BY <2>1, <1>1 DEF FF, EOI
<1>14. Dropped + j # e
  <2> SUFFICES ASSUME Dropped + j = e PROVE FALSE
    OBVIOUS
  <2>1. taken >= e + 2
    BY <1>1, <1>2, CutScanStart
  <2>2. j + 1 \in 0 .. buf_ptr - 1 /\ Dropped + (j + 1) = e + 1
    BY <2>1, <1>9
  <2>3. buf[j + 1] = SOI
    BY <2>2, CutBytes
  <2> QED
    BY <2>3, <1>1 DEF SOI, EOI
\* The frames put before stay as they are, and so does their count.
<1>15. ASSUME BeginsImage(frame) => IsPrefix(Front(Image), Pictures[Images + 1])
       PROVE  \A i \in DOMAIN frames' :
                BeginsImage(frames'[i]) =>
                  IsPrefix(Front(frames'[i].f1), Pictures'[ImagesIn(frames', i)])
  <2> SUFFICES ASSUME NEW i \in 1 .. n + 1, BeginsImage(frames'[i])
               PROVE  IsPrefix(Front(frames'[i].f1), Pictures[ImagesIn(frames', i)])
    <3>1. DOMAIN frames' = 1 .. n + 1
      <4>1. frames' \in Seq(Frame)
        BY DEF InBounds, TypeOK
      <4> QED
        BY <4>1, <1>5
    <3> QED
      BY <3>1, <1>8
  <2>1. CASE i = n + 1
    <3>1. frames'[i] = frame /\ ImagesIn(frames', i) = Images + 1
      BY <2>1, <1>5, <1>6
    <3> QED
      BY <3>1, <1>4, <1>15
  <2>2. CASE i # n + 1
    <3>1. i \in 1 .. n /\ i \in 0 .. n /\ i \in DOMAIN frames
      BY <2>2, <1>3
    <3>2. frames'[i] = frames[i] /\ ImagesIn(frames', i) = ImagesIn(frames, i)
      BY <3>1, <1>5, <1>6
    <3> QED
      BY <3>1, <3>2 DEF CutAtMost, ImagesInv
  <2> QED
    BY <2>1, <2>2
<1>16. CASE Dropped + j > e
  <2>1. /\ Images < Len(stream.ends) /\ BeginsImage(frame)
        /\ IsPrefix(Front(Image), Pictures[Images + 1])
    BY <1>2, <1>4, <1>16, ImageFront DEF BeginsImage
  <2>2. Images' = Images + 1 /\ Images' - 1 = Images
    BY <2>1, <1>7, <1>10
  <2>3. End(Images)' = End(Images + 1) /\ End(Images - 1)' = e
    BY <2>2, <1>8 DEF End
  <2>4. /\ j + 1 < buf_ptr => Dropped + j + 2 = End(Images + 1)
        /\ Dropped + j + 2 <= End(Images + 1)
    <3>1. End(Images + 1) \in Nat /\ End(Images + 1) > Dropped + j + 1
      BY <2>1, <1>10, <1>11
    <3> HIDE DEF e
    <3> QED
      BY <3>1, <1>9, <1>12, <1>16
  <2>5. KeptInv' /\ CutStartInv'
    <3>1. End(Images)' \in Nat /\ Dropped + j + 2 <= End(Images)'
      BY <2>1, <2>3, <2>4, <1>10
    <3>2. End(Images - 1)' \in Nat /\ End(Images - 1)' < Dropped + j + 2
      BY <2>3, <1>9, <1>16
    <3> QED
      BY <3>1, <3>2, <2>3, <2>4, <1>1, <1>2, CutPut
  <2>6. ImagesInv'
    <3>1. ASSUME Images + 1 < Len(stream.ends)
          PROVE  End((Images + 1) + 1) > (IF Scanning' THEN Dropped' + j' + 1 ELSE taken')
      <4>1. /\ Images + 1 \in 0 .. Len(stream.ends) /\ (Images + 1) + 1 \in 0 .. Len(stream.ends)
            /\ Images + 1 < (Images + 1) + 1
        BY <3>1, <1>10
      <4>2. /\ End(Images + 1) + 4 <= End((Images + 1) + 1) /\ End((Images + 1) + 1) \in Int
        <5>1. TypeOK
          BY DEF InBounds
        <5>2. End((Images + 1) + 1) \in 0 .. Len(Input) /\ Len(Input) \in Nat
          BY <4>1, <5>1, StreamFacts
        <5>3. End(Images + 1) + 4 <= End((Images + 1) + 1)
          BY <4>1, <5>1, EndsOrder
        <5> QED
          BY <5>2, <5>3
      <4>3. Dropped' + j' + 1 = Dropped + j + 2 /\ End(Images + 1) \in Nat
        BY <2>1, <1>1, <1>8, <1>9, <1>10
      <4>4. ~(j + 1 < buf_ptr) => taken = Dropped + j + 1
        BY <1>1, <1>9
      <4> QED
        BY <4>2, <4>3, <4>4, <2>4, <1>8, <1>9
    <3>2. End(Images + 1)' = End((Images + 1) + 1)
      BY <2>2, <1>8 DEF End
    <3>3. Images + 1 <= Len(stream.ends) /\ phase' # "ended"
      BY <2>1, <1>1, <1>10
    <3> QED
      BY <3>1, <3>2, <3>3, <2>1, <2>2, <1>8, <1>15 DEF ImagesInv
  <2> QED
    BY <2>5, <2>6, <1>1 DEF CutAtMost
<1>17. CASE Dropped + j < e - 1
  <2>1. ~BeginsImage(frame)
    BY <1>1, <1>2, <1>4, <1>17, TailIsNoImage DEF BeginsImage
  <2>2. Images' = Images
    BY <2>1, <1>7, <1>10
  <2>3. End(Images)' = e /\ End(Images - 1)' = End(Images - 1) /\ End(Images + 1)' = End(Images + 1)
    BY <2>2, <1>8 DEF End
  <2>4. /\ j + 1 < buf_ptr => Dropped + j + 2 = e
        /\ Dropped + j + 2 <= e
    <3> HIDE DEF e
    <3> QED
      BY <1>9, <1>10, <1>12, <1>17
  <2>5. KeptInv' /\ CutStartInv'
    <3>1. End(Images)' \in Nat /\ Dropped + j + 2 <= End(Images)'
      BY <2>3, <2>4, <1>9
    <3>2. Images' > 0 => End(Images - 1)' \in Nat /\ End(Images - 1)' < Dropped + j + 2
      BY <2>2, <2>3, <1>9, <1>10
    <3> QED
      BY <3>1, <3>2, <2>3, <2>4, <1>1, <1>2, CutPut
  <2>6. ImagesInv'
    <3>1. ASSUME Images < Len(stream.ends)
          PROVE  End(Images + 1) > (IF Scanning' THEN Dropped' + j' + 1 ELSE taken')
      <4>1. Dropped' + j' + 1 = Dropped + j + 2
        BY <1>1, <1>8, <1>9
      <4>2. ~(j + 1 < buf_ptr) => taken = Dropped + j + 1
        BY <1>1, <1>9
      <4> HIDE DEF e
      <4> QED
        BY <3>1, <4>1, <4>2, <2>4, <1>8, <1>9, <1>10
    <3>2. phase' # "ended"
      BY <1>1
    <3> QED
      BY <3>1, <3>2, <2>1, <2>2, <2>3, <1>8, <1>10, <1>15 DEF ImagesInv
  <2> QED
    BY <2>5, <2>6, <1>1 DEF CutAtMost
<1>18. Dropped + j > e \/ Dropped + j < e - 1
  BY <1>9, <1>13, <1>14
<1> QED
  BY <1>16, <1>17, <1>18

LEMMA NextCut ==
    /\ InBounds /\ [Next]_vars
    /\ upset \subseteq {"cut"} /\ ~interlaced => CutAtMost
    => (upset' \subseteq {"cut"} /\ ~interlaced' => CutAtMost')
<1> SUFFICES ASSUME InBounds, [Next]_vars,
                    upset \subseteq {"cut"} /\ ~interlaced => CutAtMost,
                    upset' \subseteq {"cut"}, ~interlaced'
             PROVE  CutAtMost'
  OBVIOUS
<1>1. upset \subseteq upset'
  BY DEF Next, Read, EndOfInput, ReadFails, ScanStart, ScanFrame, ScanFirstField,
         ScanSecondField, ScanOther, ScanDone, Move, MoveNothing, MoveNone, NoteCut, vars
<1>2. UNCHANGED start
  BY DEF Next, Read, EndOfInput, ReadFails, ScanStart, ScanFrame, ScanFirstField,
         ScanSecondField, ScanOther, ScanDone, Move, MoveNothing, MoveNone, vars
<1>3. ~interlaced /\ CutAtMost
  <2>1. interlaced' = interlaced
    BY <1>2 DEF start, interlaced
  <2> QED
    BY <2>1, <1>1
<1>4. CASE Read
  BY <1>3, <1>4, ReadCut
<1>5. CASE EndOfInput
  BY <1>3, <1>5, EndOfInputCut
<1>5a. CASE ReadFails
  BY <1>3, <1>5a, ReadFailsCut
<1>6. CASE ScanStart
  BY <1>3, <1>6, ScanStartCut
<1>7. CASE ScanFrame
  BY <1>3, <1>7, NextInBounds, ScanFrameCut
<1>8. CASE ScanFirstField
  BY <1>3, <1>8 DEF ScanFirstField
<1>9. CASE ScanSecondField
  BY <1>3, <1>9 DEF ScanSecondField, CutAtMost
<1>10. CASE ScanOther
  BY <1>3, <1>10, ScanOtherCut
<1>11. CASE ScanDone
  BY <1>3, <1>11, ScanDoneCut
<1>12. CASE Move
  BY <1>3, <1>12, MoveCut
<1>13. CASE MoveNothing
  BY <1>13 DEF MoveNothing
<1>14. CASE MoveNone
  BY <1>3, <1>14, MoveNoneCut
<1>15. CASE UNCHANGED vars
  <2>1. UNCHANGED <<start, frames, stream, taken, buf, buf_ptr, j, phase, move_start, start_of_frame,
                    dominant_field>>
    BY <1>15 DEF vars, buffer, marks, start
  <2>2. /\ Images' = Images /\ Input' = Input /\ Pictures' = Pictures
        /\ End(Images)' = End(Images) /\ End(Images - 1)' = End(Images - 1)
        /\ End(Images + 1)' = End(Images + 1)
    BY <2>1, CutKept
  <2>3. Dropped' = Dropped /\ KeptFrom' = KeptFrom /\ (Scanning' <=> Scanning)
    BY <2>1 DEF Dropped, KeptFrom, Scanning
  <2>4. KeptInv'
    BY <2>1, <2>2, <2>3, <1>3 DEF CutAtMost, KeptInv
  <2>5. ImagesInv'
    BY <2>1, <2>2, <2>3, <1>3, ImagesInvKept DEF CutAtMost, ImagesInv
  <2>6. TailStart' <=> TailStart
    BY <2>1, <2>2, <2>3 DEF TailStart
  <2>7. CutStartInv'
    BY <2>1, <2>2, <2>3, <2>6, <1>3 DEF CutAtMost, CutStartInv
  <2> QED
    BY <2>1, <2>4, <2>5, <2>7, <1>3 DEF CutAtMost
<1> QED
  BY <1>4, <1>5, <1>5a, <1>6, <1>7, <1>8, <1>9, <1>10, <1>11, <1>12, <1>13, <1>14, <1>15
     DEF Next

LEMMA CutAtMostShortens ==
    InBounds /\ (upset \subseteq {"cut"} /\ ~interlaced => CutAtMost) => CutOnlyShortens
<1> SUFFICES ASSUME InBounds, CutAtMost
             PROVE  /\ Images <= Len(Pictures)
                    /\ \A i \in DOMAIN frames :
                         BeginsImage(frames[i]) =>
                            IsPrefix(Front(frames[i].f1), Pictures[ImagesIn(frames, i)])
                    /\ phase = "ended" => Images = Len(Pictures)
  BY DEF CutOnlyShortens
<1>1. /\ Images \in Nat /\ Len(stream.ends) \in Nat /\ Images <= Len(stream.ends)
      /\ Images < Len(stream.ends) =>
           End(Images + 1) \in Nat /\ End(Images + 1) <= Len(Input)
  BY CutEnds
<1>2. Len(Pictures) = Len(stream.ends)
  BY <1>1 DEF Pictures
<1>3. ASSUME phase = "ended" PROVE Images = Len(stream.ends)
  <2>1. taken = Len(Input) /\ ~Scanning /\ Len(Input) \in Nat
    BY <1>3, CutPlaces DEF CutAtMost, ImagesInv, Scanning
  <2>2. ~(Images < Len(stream.ends))
    <3> SUFFICES ASSUME Images < Len(stream.ends) PROVE FALSE
      OBVIOUS
    <3>1. End(Images + 1) > taken
      BY <2>1 DEF CutAtMost, ImagesInv
    <3> QED
      BY <3>1, <2>1, <1>1
  <2> QED
    BY <2>2, <1>1
<1> QED
  BY <1>1, <1>2, <1>3 DEF CutAtMost, ImagesInv

-----------------------------------------------------------------------------
(* Both together.                                                           *)

LEMMA InitIInv == Init => IInv
  BY InitInBounds, InitUndisturbed, InitCut DEF IInv

LEMMA NextIInv == IInv /\ [Next]_vars => IInv'
<1> SUFFICES ASSUME IInv, [Next]_vars PROVE IInv'
  OBVIOUS
<1>1. /\ InBounds
      /\ upset = {} => Undisturbed
      /\ upset \subseteq {"cut"} /\ ~interlaced => CutAtMost
  BY DEF IInv
<1>2. InBounds'
  BY <1>1, NextInBounds
<1>3. upset' = {} => Undisturbed'
  BY <1>1, NextUndisturbed
<1>4. upset' \subseteq {"cut"} /\ ~interlaced' => CutAtMost'
  BY <1>1, NextCut
<1> QED
  BY <1>2, <1>3, <1>4 DEF IInv

-----------------------------------------------------------------------------
(* The theorems.                                                            *)

\* Whatever bytes arrive in whatever pieces, the program reads no further than
\* one byte beyond its buffer and one byte in front of it; and until something
\* goes wrong between two reads, the buffer holds what of the input is behind
\* the last frame put, and the scan knows where the next image begins. After
\* images were cut, the buffer may hold what is left of the last one as well,
\* and the scan still knows where the next one begins when it is past it.
THEOREM ScanStaysInBuffer == Spec => []IInv
<1>1. IInv /\ [Next]_vars => IInv'
  BY NextIInv
<1> QED
  BY InitIInv, <1>1, PTL DEF Spec

LEMMA IInvPuts == IInv => PutsPictures
<1> SUFFICES ASSUME IInv, upset = {} PROVE IsPrefix(frames, Frames)
  BY DEF PutsPictures
<1>1. TypeOK /\ Undisturbed
  BY DEF IInv, InBounds
<1>2. /\ Len(frames) <= Len(Frames)
      /\ \A k \in 1 .. Len(frames) : frames[k] = Frames[k]
  BY <1>1 DEF Undisturbed, FramesInv
<1>3. frames \in Seq(Frame) /\ Len(frames) \in Nat /\ Len(Frames) \in Nat
  <2>1. Len(Frames) \in Nat
    BY <1>1, FramesSize
  <2> QED
    BY <2>1, <1>1 DEF TypeOK
<1> QED
  BY <1>2, <1>3 DEF IsPrefix

LEMMA IInvLosesNothing == IInv => NothingLost
<1> SUFFICES ASSUME IInv, phase = "ended", upset = {} PROVE Len(frames) = Len(Frames)
  BY DEF NothingLost
<1>1. TypeOK /\ InBounds /\ Undisturbed
  BY DEF IInv, InBounds
<1>2. dominant_field /\ taken = Len(Input) /\ ~Scanning
  BY <1>1 DEF Undisturbed, FieldInv, FramesInv, Scanning
<1>3. /\ Found \in 0 .. Len(stream.ends) /\ Len(stream.ends) \in Nat
      /\ Found < Len(stream.ends) => End(Found + 1) \in End(Found) + 4 .. Len(Input)
      /\ Len(Input) \in Nat /\ Len(frames) \in Nat /\ End(Found) \in Nat
  <2>1. End(Found) \in 0 .. Len(Input) /\ Len(Input) \in Nat
    BY <1>1, Places
  <2>2. End(Found) \in Nat
    BY <2>1
  <2> QED
    BY <2>1, <2>2, <1>1, Places
<1>4. Found = Len(stream.ends)
  <2>1. Found < Len(stream.ends) => End(Found + 1) > Len(Input)
    BY <1>1, <1>2 DEF Undisturbed, FoundInv
  <2> QED
    BY <2>1, <1>3
<1>5. Found = Put
  BY <1>2 DEF Found
<1>6. CASE interlaced
  <2>1. Len(Frames) = Len(stream.ends) \div 2
    BY <1>1, <1>6, FramesSize
  <2>2. Len(stream.ends) = 2 * Len(frames)
    BY <1>4, <1>5, <1>6 DEF Put
  <2>3. (2 * Len(frames)) \div 2 = Len(frames)
    BY <1>3
  <2> QED
    BY <2>1, <2>2, <2>3
<1>7. CASE ~interlaced
  BY <1>1, <1>4, <1>5, <1>7, FramesSize DEF Put
<1> QED
  BY <1>6, <1>7

\* However the input is cut into reads, the frames in the ring are the images
\* of the stream, whole, each once and in order, in pairs if they are fields,
\* until the bookkeeping between two reads fails in one of the four ways noted.
THEOREM ImagesPut == Spec => []PutsPictures
<1>1. IInv => PutsPictures
  BY IInvPuts
<1> QED
  BY ScanStaysInBuffer, <1>1, PTL

\* When the program ends and nothing went wrong, every image is in the ring.
THEOREM ImagesAllPut == Spec => []NothingLost
<1>1. IInv => NothingLost
  BY IInvLosesNothing
<1> QED
  BY ScanStaysInBuffer, <1>1, PTL

\* An end marker made up between two reads only shortens the image it is found
\* in: with any number of them, and whatever is put of what is left of those
\* images, every image is put once, in its place among the others, and whole or
\* from its beginning.
THEOREM CutImagesPut == Spec => []CutOnlyShortens
<1>1. IInv => CutOnlyShortens
  BY CutAtMostShortens DEF IInv
<1> QED
  BY ScanStaysInBuffer, <1>1, PTL
=============================================================================
