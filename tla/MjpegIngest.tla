----------------------------- MODULE MjpegIngest -----------------------------
(***************************************************************************)
(* Ingest of an MJPEG stream: src/core/mjpeg_ingest.cpp.                   *)
(*                                                                         *)
(* The program reads its standard input in pieces of any size, looks for   *)
(* the markers FF D8 (start of image) and FF D9 (end of image) in the      *)
(* buffer, and puts what lies between them into the ring: one image per    *)
(* frame, or two when the input is separate fields.  After every read the  *)
(* buffer is scanned from its beginning; bytes are dropped from it only    *)
(* behind the last complete frame.                                         *)
(*                                                                         *)
(* The buffer is a function on -1 .. MAX: the code looks one byte beyond   *)
(* the MAX bytes it has, and can read one byte in front of them.  Bytes    *)
(* behind buf_ptr are what earlier reads left there.                       *)
(***************************************************************************)
EXTENDS Integers, Sequences, FiniteSets, SequencesExt

CONSTANTS MAX,        \* MAX_FRAME_SIZE
          Streams,    \* the inputs considered: bytes, and where their images end
          OptionSets  \* the command lines considered: subsets of {"e", "o", "p"}

Byte == 0 .. 255
FF == 255
SOI == 216   \* 0xd8
EOI == 217   \* 0xd9

ASSUME MAXAssumption == MAX \in Nat \ {0}

\* Where the k-th image of stream s ends, and the next one begins.
EndOf(s, k) == IF k = 0 THEN 0 ELSE s.ends[k]

\* s.bytes[i] and the byte behind it are this marker.
MarkerAt(s, i, second) == s.bytes[i] = FF /\ s.bytes[i + 1] = second

\* What the scan relies on, and JPEG gives it (a byte FF among the data is
\* followed by 0): images follow each other without a gap, and the two markers
\* are where an image starts and where one ends, and nowhere else.
IsStream(s) ==
    /\ s \in [bytes : Seq(Byte), ends : Seq(Nat)]
    /\ EndOf(s, Len(s.ends)) = Len(s.bytes)
    /\ \A k, l \in 0 .. Len(s.ends) : k < l => EndOf(s, k) + 4 <= EndOf(s, l)
    /\ \A i \in 1 .. Len(s.bytes) - 1 :
         /\ MarkerAt(s, i, SOI) <=> \E k \in 1 .. Len(s.ends) : i = EndOf(s, k - 1) + 1
         /\ MarkerAt(s, i, EOI) <=> \E k \in 1 .. Len(s.ends) : i = EndOf(s, k) - 1

ASSUME StreamsAssumption == \A s \in Streams : IsStream(s)
ASSUME OptionAssumption == OptionSets \subseteq SUBSET {"e", "o", "p"}

VARIABLES stream,                      \* what arrives on standard input
          options,                     \* the command line
          phase,                       \* "read", "scan", "move", "ended", "failed"
          taken,                       \* bytes of Input read so far
          buf, buf_ptr, j,
          start_of_frame, move_start,  \* -1: none
          dominant_field,
          frame_buf,                   \* the frame under construction
          frames,                      \* the frames put into the ring
          upset                        \* history: what went wrong between reads

buffer == <<taken, buf, buf_ptr>>
marks  == <<start_of_frame, move_start, dominant_field>>
start  == <<stream, options>>
vars   == <<start, phase, j, buffer, marks, frame_buf, frames, upset>>

-----------------------------------------------------------------------------
(* The command line.                                                        *)

\* "odd and even dominance don't go together"
Accepted(o) == ~{"e", "o"} \subseteq o

\* interlacing_mode # PROGRESSIVE, after force_progressive_input.
interlaced == options \cap {"e", "o"} # {} /\ "p" \notin options

\* The header the options give every frame.
NewFrame == [interlaced |-> interlaced, odd_dominant |-> "o" \in options,
             f1 |-> <<>>, f2 |-> <<>>]

-----------------------------------------------------------------------------
Upsets == {"cut", "split", "full", "large"}

Input == stream.bytes
End(k) == EndOf(stream, k)
Pictures == [k \in 1 .. Len(stream.ends) |-> SubSeq(Input, End(k - 1) + 1, End(k))]

Frame == [interlaced : BOOLEAN, odd_dominant : BOOLEAN, f1 : Seq(Byte), f2 : Seq(Byte)]

TypeOK ==
    /\ stream \in Streams
    /\ options \in OptionSets
    /\ phase \in {"read", "scan", "move", "ended", "failed"}
    /\ taken \in 0 .. Len(Input)
    /\ buf \in [-1 .. MAX -> Byte]
    /\ buf_ptr \in -1 .. MAX
    /\ j \in 0 .. MAX
    /\ start_of_frame \in -1 .. MAX - 1
    /\ move_start \in -1 .. MAX + 1
    /\ dominant_field \in BOOLEAN
    /\ frame_buf \in Frame
    /\ frames \in Seq(Frame)
    /\ upset \subseteq Upsets

\* malloc( ) of this size is a fresh mapping, which reads as zero.
Init ==
    /\ stream \in Streams
    /\ options \in {o \in OptionSets : Accepted(o)}
    /\ phase = "read"
    /\ taken = 0
    /\ buf = [i \in -1 .. MAX |-> 0]
    /\ buf_ptr = 0 /\ j = 0
    /\ start_of_frame = -1 /\ move_start = -1
    /\ dominant_field = TRUE
    /\ frame_buf = NewFrame
    /\ frames = <<>>
    /\ upset = {}

-----------------------------------------------------------------------------
(* One turn of the endless loop: read, scan, move.                          *)

\* Variant: every read asks for a whole buffer.
ReadTooMuch ==
    /\ phase = "read"
    /\ \E n \in 1 .. MAX :
         /\ taken + n <= Len(Input)
         /\ taken' = taken + n
         /\ buf_ptr' = buf_ptr + n
         /\ buf' = [i \in -1 .. MAX |-> IF i \in buf_ptr .. buf_ptr + n - 1
                                        THEN Input[taken + 1 + (i - buf_ptr)]
                                        ELSE buf[i]]
    /\ j' = 0
    /\ phase' = "scan"
    /\ UNCHANGED <<start, marks, frame_buf, frames, upset>>

\* n_read > 0
Read ==
    /\ phase = "read"
    /\ \E n \in 1 .. MAX - buf_ptr :
         /\ taken + n <= Len(Input)
         /\ taken' = taken + n
         /\ buf_ptr' = buf_ptr + n
         /\ buf' = [i \in -1 .. MAX |-> IF i \in buf_ptr .. buf_ptr + n - 1
                                        THEN Input[taken + 1 + (i - buf_ptr)]
                                        ELSE buf[i]]
    /\ j' = 0
    /\ phase' = "scan"
    /\ UNCHANGED <<start, marks, frame_buf, frames, upset>>

\* n_read = 0: the input has ended, or there is no room left in the buffer
\* and the program takes that for the end.
EndOfInput ==
    /\ phase = "read"
    /\ taken = Len(Input) \/ buf_ptr = MAX
    /\ phase' = "ended"
    /\ upset' = IF taken < Len(Input) THEN upset \cup {"large"} ELSE upset
    /\ UNCHANGED <<start, j, buffer, marks, frame_buf, frames>>

\* n_read < 0: "read stdin", and the program returns 1.
ReadFails ==
    /\ phase = "read"
    /\ phase' = "failed"
    /\ UNCHANGED <<start, j, buffer, marks, frame_buf, frames, upset>>

\* The scan is at byte j and looks at the one behind it, read or not.
At(second) ==
    /\ phase = "scan"
    /\ j < buf_ptr
    /\ buf[j] = FF /\ buf[j + 1] = second
    /\ j' = j + 1

\* 0xff 0xd8 = JPEG start of image
ScanStart ==
    /\ At(SOI)
    /\ start_of_frame' = j
    /\ UNCHANGED <<start, phase, buffer, move_start, dominant_field, frame_buf,
                   frames, upset>>

\* History: the D9 was not read but left there by an earlier read, and
\* something else is still to come in its place.
NoteCut ==
    upset' = IF j + 1 = buf_ptr /\ (taken < Len(Input) => Input[taken + 1] # EOI)
             THEN upset \cup {"cut"} ELSE upset

\* The bytes of the image that ends here.
Image == [i \in 1 .. j + 2 - start_of_frame |-> buf[start_of_frame + i - 1]]

\* Variant: one byte too many goes with the frame.
PutFrameMovesLate(frame) ==
    /\ frame_buf' = frame
    /\ frames' = Append(frames, frame)
    /\ start_of_frame' = -1
    /\ move_start' = j + 3

\* Counted from the start of the buffer, what is behind a frame starts at j + 2.
PutFrame(frame) ==
    /\ frame_buf' = frame
    /\ frames' = Append(frames, frame)
    /\ start_of_frame' = -1
    /\ move_start' = j + 2

\* 0xff 0xd9 = JPEG end of image, so process it: a progressive frame,
ScanFrame ==
    /\ At(EOI)
    /\ start_of_frame # -1 /\ dominant_field /\ ~interlaced
    /\ PutFrame([frame_buf EXCEPT !.f1 = Image, !.f2 = <<>>])
    /\ NoteCut
    /\ UNCHANGED <<start, phase, buffer, dominant_field>>

\* the first field of a frame, which stays in the buffer,
ScanFirstField ==
    /\ At(EOI)
    /\ start_of_frame # -1 /\ dominant_field /\ interlaced
    /\ frame_buf' = [frame_buf EXCEPT !.f1 = Image, !.f2 = <<>>]
    /\ dominant_field' = FALSE
    /\ NoteCut
    /\ UNCHANGED <<start, phase, buffer, start_of_frame, move_start, frames>>

\* Variant: the next image is still taken for a second field.
ScanSecondFieldOnly ==
    /\ At(EOI)
    /\ start_of_frame # -1 /\ ~dominant_field
    /\ PutFrame([frame_buf EXCEPT !.f2 = Image])
    /\ NoteCut
    /\ UNCHANGED <<start, phase, buffer, dominant_field>>

\* or the second field.
ScanSecondField ==
    /\ At(EOI)
    /\ start_of_frame # -1 /\ ~dominant_field
    /\ dominant_field' = TRUE
    /\ PutFrame([frame_buf EXCEPT !.f2 = Image])
    /\ NoteCut
    /\ UNCHANGED <<start, phase, buffer>>

ScanOther ==
    /\ phase = "scan"
    /\ j < buf_ptr
    /\ ~(buf[j] = FF /\ buf[j + 1] = SOI)
    /\ ~(buf[j] = FF /\ buf[j + 1] = EOI /\ start_of_frame # -1)
    /\ j' = j + 1
    /\ UNCHANGED <<start, phase, buffer, marks, frame_buf, frames, upset>>

\* The scan is through.  History: it ends between the fields of a frame.
ScanDone ==
    /\ phase = "scan"
    /\ j >= buf_ptr
    /\ phase' = "move"
    /\ upset' = IF dominant_field THEN upset ELSE upset \cup {"split"}
    /\ UNCHANGED <<start, j, buffer, marks, frame_buf, frames>>

\* Variant: what is behind the last frame is forgotten.
MoveAll ==
    /\ phase = "move"
    /\ move_start # -1 /\ move_start < MAX
    /\ buf_ptr' = 0
    /\ move_start' = -1
    /\ phase' = "read"
    /\ UNCHANGED <<start, taken, buf, j, start_of_frame, dominant_field, frame_buf,
                   frames, upset>>

\* What is behind the last frame goes to the front.
Move ==
    /\ phase = "move"
    /\ move_start # -1 /\ move_start < MAX
    /\ buf' = [i \in -1 .. MAX |-> IF i \in 0 .. MAX - move_start - 1
                                   THEN buf[i + move_start] ELSE buf[i]]
    /\ buf_ptr' = buf_ptr - move_start
    /\ move_start' = -1
    /\ phase' = "read"
    /\ UNCHANGED <<start, taken, j, start_of_frame, dominant_field, frame_buf,
                   frames, upset>>

\* "everything was consumed": move_start stays as it is, so that this happens
\* after every read from now on, until another frame is found.
MoveNothing ==
    /\ phase = "move"
    /\ move_start >= MAX
    /\ buf_ptr' = 0
    /\ phase' = "read"
    /\ upset' = upset \cup {"full"}
    /\ UNCHANGED <<start, taken, buf, j, marks, frame_buf, frames>>

MoveNone ==
    /\ phase = "move"
    /\ move_start = -1
    /\ phase' = "read"
    /\ UNCHANGED <<start, j, buffer, marks, frame_buf, frames, upset>>

Next ==
    \/ Read \/ EndOfInput \/ ReadFails
    \/ ScanStart \/ ScanFrame \/ ScanFirstField \/ ScanSecondField \/ ScanOther \/ ScanDone
    \/ Move \/ MoveNothing \/ MoveNone

Spec == Init /\ [][Next]_vars

-----------------------------------------------------------------------------
(* Correctness.                                                             *)

\* What the ring should receive.
Frames ==
    IF interlaced
    THEN [k \in 1 .. Len(Pictures) \div 2 |->
            [NewFrame EXCEPT !.f1 = Pictures[2 * k - 1], !.f2 = Pictures[2 * k]]]
    ELSE [k \in 1 .. Len(Pictures) |-> [NewFrame EXCEPT !.f1 = Pictures[k]]]

\* However the input is cut into reads, what is put is the images of the
\* stream, whole, each once and in order, and in pairs if it is fields; except
\* for the four ways the bookkeeping between two reads can fail.
PutsPictures == upset = {} => IsPrefix(frames, Frames)

\* A frame that begins as an image does.
BeginsImage(frame) == Len(frame.f1) > 1 /\ frame.f1[2] = SOI

\* How many of the first i frames do.
ImagesIn(put, i) == Cardinality({h \in 1 .. i : BeginsImage(put[h])})
Images == ImagesIn(frames, Len(frames))

\* A marker made up from a byte that was read and an old one ends an image
\* early. What is left of the image can become a frame of its own, which is no
\* image and may be empty: when a read ends behind the start of the next image,
\* the scan that follows has that start in mind as it comes to the end of the
\* one that was cut. The images themselves are put all the same: each once, in
\* order, and whole or, if cut, from its beginning to the marker made up.
CutOnlyShortens ==
    upset = {"cut"} /\ ~interlaced =>
        /\ Images <= Len(Pictures)
        /\ \A i \in DOMAIN frames :
             BeginsImage(frames[i]) =>
                IsPrefix(Front(frames[i].f1), Pictures[ImagesIn(frames, i)])
        /\ phase = "ended" => Images = Len(Pictures)

\* At the end of the input every image has been put.
NothingLost == phase = "ended" /\ upset = {} => Len(frames) = Len(Frames)

-----------------------------------------------------------------------------
(* What the comments say and the code does not do.                          *)

\* "The dominant field is input (and output, and stored) first." (55): of the
\* fields that come in pairs, the first of a pair is the first of a frame.
\* After a read that ends between the two, the scan takes the first for the
\* second as well, and the pairs are off by one from then on.
DominantFirst ==
    interlaced /\ upset \cap {"cut", "full", "large"} = {} =>
        \A i \in DOMAIN frames :
            \E k \in 1 .. Len(Pictures) : k % 2 = 1 /\ frames[i].f1 = Pictures[k]
-----------------------------------------------------------------------------
(* Why they hold: the inductive invariant.                                  *)

\* The scan goes no further than what was read; behind a frame at most one
\* byte is dropped that was not read, or everything is.
Bounds ==
    /\ move_start <= buf_ptr + 1 \/ move_start >= MAX
    /\ phase = "scan" => j <= buf_ptr

\* How many bytes of the input are no longer in the buffer, how many images
\* were put, and how many were found: one more between the fields of a frame.
Dropped == taken - buf_ptr
Put == IF interlaced THEN 2 * Len(frames) ELSE Len(frames)
Found == IF dominant_field THEN Put ELSE Put + 1

\* The buffer is the input from where it was dropped, and what is to be moved
\* to its front is what is behind the last image that was put.
BufferInv ==
    /\ buf_ptr <= taken
    /\ \A i \in 0 .. buf_ptr - 1 : buf[i] = Input[Dropped + i + 1]
    /\ End(Put) = Dropped + (IF move_start = -1 THEN 0 ELSE move_start)
    /\ phase \in {"read", "ended"} => move_start = -1

Scanning == phase = "scan" /\ j < buf_ptr

\* The images found are those whose end the scan has passed; only the last
\* byte of one may be missing.
FoundInv ==
    /\ Found <= Len(stream.ends)
    /\ End(Found) <= taken + 1
    /\ Scanning => End(Found) <= Dropped + j + 1
    /\ Found < Len(stream.ends) =>
         End(Found + 1) > IF Scanning THEN Dropped + j + 1 ELSE taken

\* Past the beginning of the next image, the scan knows it; before, it may
\* have anything in mind.
StartInv ==
    Scanning /\ Dropped + j > End(Found) => start_of_frame = End(Found) - Dropped

\* A frame is begun only in a scan, with the image found last.
FieldInv ==
    /\ frame_buf.interlaced = interlaced /\ frame_buf.odd_dominant = ("o" \in options)
    /\ ~dominant_field =>
         interlaced /\ phase = "scan" /\ frame_buf.f1 = Pictures[Found] /\ frame_buf.f2 = <<>>

FramesInv ==
    /\ Len(frames) <= Len(Frames)
    /\ \A k \in 1 .. Len(frames) : frames[k] = Frames[k]
    /\ phase = "ended" => taken = Len(Input)

\* As long as nothing goes wrong between two reads.
Undisturbed == BufferInv /\ FoundInv /\ StartInv /\ FieldInv /\ FramesInv

(* The same for streams of whole images when an image may have been cut.    *)

\* Where the part of the input that is kept begins: what is in front of it was
\* put, and is dropped by the next move.
KeptFrom == Dropped + (IF move_start = -1 THEN 0 ELSE move_start)

\* It begins behind the image put last or, if that was cut, within it.
KeptInv ==
    /\ buf_ptr <= taken
    /\ \A i \in 0 .. buf_ptr - 1 : buf[i] = Input[Dropped + i + 1]
    /\ phase \in {"read", "ended"} => move_start = -1
    /\ KeptFrom <= End(Images)
    /\ Images > 0 => End(Images - 1) < KeptFrom
    /\ Scanning /\ move_start # -1 => KeptFrom = End(Images)

\* No image but those put has been passed.
ImagesInv ==
    /\ Images <= Len(stream.ends)
    /\ Images < Len(stream.ends) =>
         End(Images + 1) > IF Scanning THEN Dropped + j + 1 ELSE taken
    /\ \A i \in DOMAIN frames :
         BeginsImage(frames[i]) =>
            IsPrefix(Front(frames[i].f1), Pictures[ImagesIn(frames, i)])
    /\ phase = "ended" => taken = Len(Input)

\* A start in mind within what is left of an image that was cut is a byte FF.
TailStart ==
    start_of_frame # -1 =>
        /\ start_of_frame < buf_ptr
        /\ Dropped + start_of_frame < End(Images) => buf[start_of_frame] = FF

\* Past the beginning of the next image, the scan knows it. Before, where a
\* start in mind could take its first byte for the end of a frame, there is
\* none, or the second byte has been read.
CutStartInv ==
    /\ Scanning =>
         /\ Dropped + j > End(Images) => start_of_frame = End(Images) - Dropped
         /\ Dropped + j \in {End(Images) - 1, End(Images)} =>
              start_of_frame = -1 \/ taken >= End(Images) + 2
         /\ Dropped + j < End(Images) - 1 => move_start = -1 /\ TailStart
    /\ ~Scanning =>
         /\ KeptFrom = End(Images) => start_of_frame = -1 \/ taken > End(Images)
         /\ KeptFrom < End(Images) =>
              TailStart /\ (move_start # -1 => start_of_frame = -1)

\* As long as nothing worse happens than a cut.
CutAtMost == dominant_field /\ KeptInv /\ ImagesInv /\ CutStartInv

InBounds == TypeOK /\ Bounds

IInv ==
    /\ InBounds
    /\ upset = {} => Undisturbed
    /\ upset \subseteq {"cut"} /\ ~interlaced => CutAtMost
=============================================================================
