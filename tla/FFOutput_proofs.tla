--------------------------- MODULE FFOutput_proofs ---------------------------
(***************************************************************************)
(* Proofs about FFOutput: the types of its variables, the streams, the     *)
(* references to the picture and the order of what is scheduled, for any   *)
(* size of the blocks, the pipe to aplay and what ffmpeg writes.           *)
(***************************************************************************)
EXTENDS FFOutput, SequenceTheorems, TLAPS

\* The picture is not the null pointer.
LEMMA ThePicture == uyvy_frame \in Pictures /\ uyvy_frame # Null
  BY OnePicture, NullAssumption DEF uyvy_frame

-----------------------------------------------------------------------------
(* The picture: its references, and what the card shows of it.              *)

PictureType ==
    /\ rcount \in [Pictures -> Nat] /\ content \in [Pictures -> Content]
    /\ {current_frame, new_frame, old_frame, in_frame} \subseteq Pictures \cup {Null}
    /\ current_frame_is_stale \in BOOLEAN
    /\ card \in {"playing", "completed", "taken", "copying", "copied"}
    /\ {copied, scheduled} \subseteq Content
    /\ main \in {"video", "memcpy", "set", "swap", "drop", "audio",
                "update video", "update audio"} \cup Ended
    /\ drawn \in Nat

PictureInv == PictureType /\ RefsExact /\ LocalsInv /\ DrawnInv /\ CopyInv

\* What the main loop does between two pictures leaves the picture alone.
ElseStep ==
    /\ UNCHANGED <<outputVars, drawn>>
    /\ main \notin {"memcpy", "set", "swap", "drop"}
    /\ main' \in {"video", "audio", "update video", "update audio"} \cup Ended

LEMMA Counts ==
    ASSUME NEW r \in [Pictures -> Nat]
    PROVE  /\ [r EXCEPT ![uyvy_frame] = @ + 1] \in [Pictures -> Nat]
           /\ r[uyvy_frame] >= 1 => [r EXCEPT ![uyvy_frame] = @ - 1] \in [Pictures -> Nat]
  BY OnePicture DEF uyvy_frame

LEMMA ElseKeeps == ASSUME PictureInv, ElseStep PROVE PictureInv'
<1> USE DEF PictureInv, outputVars, pictureVars, sharedVars, setVars, cardVars
<1>0. /\ UNCHANGED <<outputVars, drawn>>
      /\ main \notin {"memcpy", "set", "swap", "drop"}
      /\ main' \in {"video", "audio", "update video", "update audio"} \cup Ended
      /\ main' \notin {"memcpy", "set", "swap", "drop"}
  BY DEF ElseStep, Ended
<1>1. PictureType'
  BY <1>0 DEF PictureType
<1>2. ~Drawing /\ ~Drawing' /\ NotNext' = NotNext
  BY <1>0 DEF Drawing, NotNext
<1>3. RefsExact'
  BY <1>0 DEF RefsExact
<1>4. LocalsInv'
  BY <1>0 DEF LocalsInv
<1>5. DrawnInv'
  BY <1>0, <1>2 DEF DrawnInv
<1>6. CopyInv'
  BY <1>0, <1>2 DEF CopyInv
<1> QED
  BY <1>1, <1>3, <1>4, <1>5, <1>6

LEMMA SameKeeps == ASSUME PictureInv, UNCHANGED <<outputVars, main, drawn>> PROVE PictureInv'
<1> USE DEF PictureInv, outputVars, pictureVars, sharedVars, setVars, cardVars
<1>1. PictureType'
  BY DEF PictureType
<1>2. RefsExact' /\ LocalsInv' /\ DrawnInv'
  BY DEF RefsExact, LocalsInv, DrawnInv, Drawing
<1>3. CopyInv'
  BY DEF CopyInv, Drawing, NotNext
<1> QED
  BY <1>1, <1>2, <1>3

LEMMA DrawKeeps == ASSUME PictureInv, DrawBegin \/ DrawEnd PROVE PictureInv'
<1> USE ThePicture
<1>1. CASE DrawBegin
  <2>1. main = "video" /\ main' = "memcpy" /\ drawn' = drawn + 1 /\ current_frame_is_stale
    BY <1>1 DEF DrawBegin, Ready
  <2>2. UNCHANGED <<rcount, sharedVars, setVars, cardVars>> /\ content' = [content EXCEPT ![uyvy_frame] = Torn]
    BY <1>1 DEF DrawBegin
  <2> USE <2>1, <2>2 DEF PictureInv, sharedVars, setVars, cardVars
  <2>3. PictureType'
    BY DEF PictureType, Torn, Content
  <2>4. RefsExact' /\ LocalsInv'
    BY DEF RefsExact, LocalsInv
  <2>5. DrawnInv'
    BY DEF DrawnInv, PictureType, Drawing
  <2>6. CopyInv'
    BY DEF CopyInv, DrawnInv, PictureType, Drawing, NotNext, Torn, Black, Content
  <2> QED
    BY <2>3, <2>4, <2>5, <2>6
<1>2. CASE DrawEnd
  <2>1. main = "memcpy" /\ main' = "set" /\ content' = [content EXCEPT ![uyvy_frame] = drawn]
    BY <1>2 DEF DrawEnd
  <2>2. UNCHANGED <<rcount, sharedVars, setVars, cardVars, drawn>>
    BY <1>2 DEF DrawEnd
  <2> USE <2>1, <2>2 DEF PictureInv, sharedVars, setVars, cardVars
  <2>3. PictureType'
    BY DEF PictureType, Content
  <2>4. RefsExact' /\ LocalsInv'
    BY DEF RefsExact, LocalsInv
  <2>5. DrawnInv'
    BY DEF DrawnInv, PictureType, Drawing
  <2>6. CopyInv'
    BY DEF CopyInv, PictureType, Drawing, NotNext
  <2> QED
    BY <2>3, <2>4, <2>5, <2>6
<1> QED
  BY <1>1, <1>2

LEMMA SetKeeps == ASSUME PictureInv, SetNextFrame PROVE PictureInv'
<1> USE ThePicture DEF PictureInv
<1>1. CASE main = "set" /\ TakeReference(uyvy_frame) /\ main' = "swap"
  <2>1. /\ new_frame' = uyvy_frame /\ rcount' = Addref(uyvy_frame)
        /\ UNCHANGED <<content, sharedVars, old_frame, cardVars, drawn>>
    BY <1>1 DEF TakeReference, SetNextFrame
  <2> USE <1>1, <2>1 DEF sharedVars, cardVars
  <2>2. PictureType'
    BY DEF PictureType, Addref
  <2>3. RefsExact' /\ LocalsInv'
    BY DEF PictureType, RefsExact, LocalsInv, Addref
  <2>4. DrawnInv' /\ CopyInv'
    BY DEF DrawnInv, CopyInv, Drawing, NotNext
  <2> QED
    BY <2>2, <2>3, <2>4
<1>2. CASE main = "swap" /\ Swap /\ main' = "drop"
  <2>1. /\ old_frame' = current_frame /\ current_frame' = new_frame
        /\ current_frame_is_stale' = FALSE /\ new_frame' = Null
        /\ UNCHANGED <<pictureVars, cardVars, drawn>>
    BY <1>2 DEF Swap, SetNextFrame
  <2> USE <1>2, <2>1 DEF pictureVars, cardVars
  <2>2. PictureType'
    BY DEF PictureType
  <2>3. RefsExact' /\ LocalsInv'
    BY DEF PictureType, RefsExact, LocalsInv
  <2>4. DrawnInv' /\ CopyInv'
    BY DEF DrawnInv, CopyInv, Drawing, NotNext, LocalsInv
  <2> QED
    BY <2>2, <2>3, <2>4
<1>3. CASE main = "drop" /\ DropOld /\ main' = "audio"
  <2>1. /\ rcount' = Free(old_frame) /\ old_frame' = Null
        /\ UNCHANGED <<content, sharedVars, new_frame, cardVars, drawn>>
    BY <1>3 DEF DropOld, SetNextFrame
  <2> USE <1>3, <2>1 DEF sharedVars, cardVars
  <2>2. old_frame = Null \/ (old_frame = uyvy_frame /\ rcount[uyvy_frame] >= 2)
    BY OnePicture DEF PictureType, RefsExact, uyvy_frame
  <2>3. PictureType'
    BY <2>2, OnePicture DEF PictureType, Free
  <2>4. RefsExact' /\ LocalsInv'
    BY <2>2 DEF PictureType, RefsExact, LocalsInv, Free
  <2>5. DrawnInv' /\ CopyInv'
    BY DEF DrawnInv, CopyInv, Drawing, NotNext
  <2> QED
    BY <2>3, <2>4, <2>5
<1> QED
  BY <1>1, <1>2, <1>3 DEF SetNextFrame

LEMMA CardKeeps == ASSUME PictureInv, Card PROVE PictureInv'
<1> USE ThePicture DEF PictureInv
<1>0. UNCHANGED <<main, drawn>>
  BY DEF Card, ffVars
<1>1. CASE FrameCompleted
  BY <1>0, <1>1 DEF FrameCompleted, pictureVars, sharedVars, setVars, PictureType, RefsExact,
     LocalsInv, DrawnInv, CopyInv, Drawing, NotNext
<1>2. CASE TakeFrame
  <2>1. /\ card = "completed" /\ card' = "taken" /\ in_frame' = current_frame
        /\ UNCHANGED <<content, current_frame, setVars, copied, scheduled>>
    BY <1>2 DEF TakeFrame
  <2>2. current_frame \in {Null, uyvy_frame}
    BY OnePicture DEF PictureType, uyvy_frame
  <2> USE <1>0, <2>1, <2>2 DEF setVars
  <2>3. CASE current_frame = Null
    <3>1. UNCHANGED <<rcount, current_frame_is_stale>>
      BY <1>2, <2>3 DEF TakeFrame
    <3>2. PictureType' /\ RefsExact' /\ LocalsInv' /\ DrawnInv'
      BY <2>3, <3>1 DEF PictureType, RefsExact, LocalsInv, DrawnInv, Drawing
    <3>3. drawn = 0 \/ (drawn = 1 /\ Drawing)
      BY <2>3 DEF DrawnInv
    <3>4. (drawn = 1 => NotNext)'
      BY <3>3 DEF NotNext, Drawing
    <3>5. CopyInv'
      BY <2>3, <3>1, <3>3, <3>4 DEF CopyInv
    <3> QED
      BY <3>2, <3>5
  <2>4. CASE current_frame = uyvy_frame
    <3>1. rcount' = Addref(uyvy_frame) /\ current_frame_is_stale' = TRUE
      BY <1>2, <2>4 DEF TakeFrame
    <3>0. rcount' \in [Pictures -> Nat]
      BY <3>1, Counts DEF PictureType, Addref
    <3>2. PictureType' /\ LocalsInv'
      BY <2>4, <3>0, <3>1 DEF PictureType, LocalsInv
    <3>3. RefsExact'
      <4>1. in_frame = Null
        BY DEF LocalsInv
      <4>2. rcount'[uyvy_frame] = rcount[uyvy_frame] + 1 /\ rcount[uyvy_frame] \in Nat
        BY <3>1 DEF Addref, PictureType
      <4> QED
        BY <2>4, <4>1, <4>2 DEF RefsExact
    <3>4. DrawnInv' /\ CopyInv'
      BY <2>4, <3>1 DEF PictureType, DrawnInv, CopyInv, Drawing, NotNext
    <3> QED
      BY <3>2, <3>3, <3>4
  <2> QED
    BY <2>3, <2>4
<1>3. CASE CopyBegin
  <2>1. /\ card = "taken" /\ card' = "copying"
        /\ copied' = IF in_frame = Null THEN Black ELSE content[in_frame]
        /\ UNCHANGED <<pictureVars, sharedVars, setVars, in_frame, scheduled>>
    BY <1>3 DEF CopyBegin
  <2>2. in_frame \in {Null, uyvy_frame}
    BY OnePicture DEF PictureType, uyvy_frame
  <2> USE <1>0, <2>1, <2>2 DEF pictureVars, sharedVars, setVars
  <2>3. copied' \in Content /\ (copied' = Torn \/ copied' = drawn \/ (in_frame = Null /\ copied' = Black))
    BY DEF PictureType, DrawnInv, Content, Black
  <2>4. PictureType'
    BY <2>3 DEF PictureType
  <2>5. RefsExact' /\ LocalsInv' /\ DrawnInv'
    BY DEF RefsExact, LocalsInv, DrawnInv, Drawing
  <2>6. CopyInv'
    <3>1. CASE in_frame = Null
      <4>1. copied' = Black /\ scheduled = Black /\ drawn <= 1 /\ (drawn = 1 => NotNext) /\ drawn \in Nat
        BY <3>1 DEF CopyInv, PictureType
      <4>2. NotNext' = NotNext
        BY DEF NotNext, Drawing
      <4>3. drawn = 0 \/ (drawn = 1 /\ NotNext)
        BY <4>1
      <4>4. copied' \in {drawn, drawn - 1} /\ (copied' # drawn => NotNext) /\ scheduled <= copied'
        BY <4>1, <4>3 DEF Black
      <4> QED
        BY <3>1, <4>1, <4>2, <4>4 DEF CopyInv
    <3>2. CASE in_frame # Null
      <4>1. copied' = Torn \/ copied' = drawn
        BY <3>2, <2>3
      <4> QED
        BY <3>2, <4>1 DEF PictureType, CopyInv, NotNext, Drawing, Content, Torn
    <3> QED
      BY <3>1, <3>2
  <2> QED
    BY <2>4, <2>5, <2>6
<1>4. CASE CopyEnd
  <2>1. /\ card = "copying" /\ card' = "copied"
        /\ copied' = IF in_frame = Null \/ content[in_frame] = copied THEN copied ELSE Torn
        /\ UNCHANGED <<pictureVars, sharedVars, setVars, in_frame, scheduled>>
    BY <1>4 DEF CopyEnd
  <2> USE <1>0, <2>1 DEF pictureVars, sharedVars, setVars
  <2>2. PictureType' /\ RefsExact' /\ LocalsInv' /\ DrawnInv'
    BY DEF PictureType, RefsExact, LocalsInv, DrawnInv, Drawing, Torn, Content
  <2>3. CopyInv'
    BY DEF PictureType, CopyInv, Drawing, NotNext
  <2> QED
    BY <2>2, <2>3
<1>5. CASE Schedule
  <2>1. /\ card = "copied" /\ card' = "playing" /\ rcount' = Free(in_frame)
        /\ in_frame' = Null /\ scheduled' = copied /\ copied' = Black
        /\ UNCHANGED <<content, sharedVars, setVars>>
    BY <1>5 DEF Schedule
  <2>2. in_frame = Null \/ (in_frame = uyvy_frame /\ rcount[uyvy_frame] >= 2)
    <3>1. in_frame \in {Null, uyvy_frame} /\ rcount[uyvy_frame] \in Nat
      BY OnePicture DEF PictureType, uyvy_frame
    <3> QED
      BY <3>1 DEF RefsExact
  <2> USE <1>0, <2>1 DEF sharedVars, setVars
  <2>3. PictureType'
    <3>1. rcount \in [Pictures -> Nat] /\ rcount[uyvy_frame] \in Nat
      BY DEF PictureType
    <3>2. rcount' \in [Pictures -> Nat]
      BY <2>2, <3>1, Counts DEF Free
    <3>3. {current_frame, new_frame, old_frame, in_frame}' \subseteq Pictures \cup {Null}
      BY DEF PictureType
    <3>4. {copied, scheduled}' \subseteq Content
      <4>1. copied \in Content /\ 0 \in Content
        BY DEF PictureType, Content
      <4> QED
        BY <4>1 DEF Black
    <3> QED
      BY <3>2, <3>3, <3>4 DEF PictureType
  <2>4. RefsExact'
    <3>1. CASE in_frame = Null
      BY <3>1 DEF RefsExact, Free
    <3>2. CASE in_frame = uyvy_frame
      <4>1. rcount'[uyvy_frame] = rcount[uyvy_frame] - 1 /\ rcount[uyvy_frame] \in Nat
        BY <3>2 DEF Free, PictureType
      <4> QED
        BY <3>2, <4>1 DEF RefsExact
    <3> QED
      BY <2>2, <3>1, <3>2
  <2>5. LocalsInv' /\ DrawnInv'
    BY DEF LocalsInv, DrawnInv, Drawing
  <2>6. CopyInv'
    <3>1. scheduled' = Torn \/ scheduled' <= drawn
      <4>1. drawn \in Nat
        BY DEF PictureType
      <4>2. copied = Torn \/ copied \in {drawn, drawn - 1}
        BY DEF CopyInv
      <4> QED
        BY <4>1, <4>2
    <3>2. current_frame = Null => scheduled' = Black
      BY DEF CopyInv
    <3> QED
      BY <3>1, <3>2 DEF CopyInv
  <2> QED
    BY <2>3, <2>4, <2>5, <2>6
<1> QED
  BY <1>1, <1>2, <1>3, <1>4, <1>5 DEF Card

LEMMA PictureStep == ASSUME PictureInv, [Next]_vars PROVE PictureInv'
<1>1. CASE Finished \/ NoFrame \/ Audio \/ AudioKills \/ Update
  <2> ElseStep
    BY <1>1 DEF Finished, NoFrame, Audio, AudioKills, Update, ElseStep, Ended
  <2> QED
    BY ElseKeeps
<1>2. CASE DrawBegin \/ DrawEnd
  BY <1>2, DrawKeeps
<1>3. CASE SetNextFrame
  BY <1>3, SetKeeps
<1>4. CASE Card
  BY <1>4, CardKeeps
<1>5. CASE (\E s \in Pipes : FfmpegWrites(s)) \/ FfmpegEnds \/ AplayReads \/ AplayDies \/ UNCHANGED vars
  <2> UNCHANGED <<outputVars, main, drawn>>
    BY <1>5 DEF FfmpegWrites, FfmpegEnds, AplayReads, AplayDies, vars, ffVars
  <2> QED
    BY SameKeeps
<1> QED
  BY <1>1, <1>2, <1>3, <1>4, <1>5 DEF Next, MainLoop

-----------------------------------------------------------------------------
(* The streams: what is in a pipe buffer, and in the pipe to aplay.         *)

\* PipeTypeOK and BlocksWhole of one buffer, with `taken` blocks taken from it.
BufferType(b) ==
    /\ b.read \in Nat /\ b.eof \in BOOLEAN
    /\ b.cur \in Seq(Nat) /\ b.ready \in Seq(Seq(Nat))

BufferWhole(s, b, taken) ==
    LET n == Len(b.ready) IN
    /\ \A i \in 1 .. n : b.ready[i] = Block(s, taken + i)
    /\ ~b.eof => b.read = (taken + n) * BlockSize[s] + Len(b.cur)
    /\ \A i \in 1 .. Len(b.cur) : b.cur[i] = (taken + n) * BlockSize[s] + i
    /\ Len(b.cur) < BlockSize[s]

LEMMA BlockSizes == \A s \in Pipes : BlockSize[s] \in Nat /\ BlockSize[s] > 0
  BY BlockSizeAssumption

LEMMA Multiples ==
    ASSUME NEW m \in Nat, NEW k \in Nat
    PROVE  m * k \in Nat /\ (m + 1) * k = m * k + k
  BY SMT

\* Units read go on where the block being read ends, and a full block is the
\* next one.
LEMMA UnitsFit ==
    ASSUME NEW s \in Pipes, NEW taken \in Nat, NEW b, b = Buffer(s),
           BufferType(b), BufferWhole(s, b, taken), ~b.eof,
           NEW k \in Nat, Len(b.cur) + k <= BlockSize[s]
    PROVE  LET c == ReadUnits(s, b, k) IN BufferType(c) /\ BufferWhole(s, c, taken)
<1> DEFINE cur == b.cur \o [i \in 1 .. k |-> b.read + i]
           base == (taken + Len(b.ready)) * BlockSize[s]
<1>1. BlockSize[s] \in Nat /\ Len(b.ready) \in Nat /\ Len(b.cur) \in Nat /\ k \in Nat /\ b.read \in Nat
  BY BlockSizes DEF BufferType
<1>2. base \in Nat
  BY <1>1, Multiples
<1>m. (taken + Len(b.ready) + 1) * BlockSize[s] = base + BlockSize[s]
  BY <1>1, Multiples
<1>3. [i \in 1 .. k |-> b.read + i] \in Seq(Nat) /\ Len([i \in 1 .. k |-> b.read + i]) = k
  BY <1>1
<1>4. cur \in Seq(Nat) /\ Len(cur) = Len(b.cur) + k
  BY <1>1, <1>3 DEF BufferType
<1>o. \A i \in 1 .. Len(b.cur) + k :
         cur[i] = IF i <= Len(b.cur) THEN b.cur[i] ELSE b.read + (i - Len(b.cur))
  <2>1. PICK d : d = [i \in 1 .. k |-> b.read + i]
    OBVIOUS
  <2>2. /\ d \in Seq(Nat) /\ Len(d) = k /\ \A i \in 1 .. k : d[i] = b.read + i
        /\ b.cur \in Seq(Nat)
    BY <1>3, <2>1 DEF BufferType
  <2>3. \A i \in 1 .. Len(b.cur) + k :
           (b.cur \o d)[i] = IF i <= Len(b.cur) THEN b.cur[i] ELSE d[i - Len(b.cur)]
    BY <2>2, ConcatProperties
  <2>4. \A i \in 1 .. Len(b.cur) + k : ~(i <= Len(b.cur)) => i - Len(b.cur) \in 1 .. k
    BY <1>1
  <2> QED
    BY <2>1, <2>2, <2>3, <2>4
<1>w. b.read = base + Len(b.cur)
  BY DEF BufferWhole
<1>v. \A i \in 1 .. Len(b.cur) : b.cur[i] = base + i
  BY DEF BufferWhole
<1> HIDE DEF base, cur
<1>5. ASSUME NEW i \in 1 .. Len(cur) PROVE cur[i] = base + i
  <2>0. i \in 1 .. Len(b.cur) + k /\ (i <= Len(b.cur) => i \in 1 .. Len(b.cur))
    BY <1>1, <1>4
  <2>1. CASE i <= Len(b.cur)
    BY <1>o, <1>v, <2>0, <2>1
  <2>2. CASE ~(i <= Len(b.cur))
    <3>1. cur[i] = b.read + (i - Len(b.cur))
      BY <1>o, <2>0, <2>2
    <3>2. PICK r \in Nat, m \in Nat, t \in Nat : r = b.read /\ m = Len(b.cur) /\ t = base
      BY <1>1, <1>2
    <3>3. i \in Nat
      BY <1>1, <2>0
    <3>4. r + (i - m) = t + i
      <4>1. r = t + m
        BY <1>w, <3>2
      <4> QED
        BY <3>3, <4>1
    <3> QED
      BY <3>1, <3>2, <3>4
  <2> QED
    BY <2>1, <2>2
<1>6. CASE Len(cur) = BlockSize[s]
  <2> DEFINE c == [b EXCEPT !.read = @ + k, !.ready = Append(@, cur), !.cur = <<>>]
  <2>1. ReadUnits(s, b, k) = c
    BY <1>6 DEF ReadUnits, cur
  <2>2. /\ c.read = b.read + k /\ c.ready = Append(b.ready, cur)
        /\ c.cur = <<>> /\ c.eof = b.eof
    BY DEF Buffer
  <2>3. cur = Block(s, taken + Len(b.ready) + 1)
    <3>1. cur = [i \in 1 .. BlockSize[s] |-> cur[i]]
      BY <1>4, <1>6
    <3>2. ASSUME NEW i \in 1 .. BlockSize[s]
          PROVE  cur[i] = (taken + Len(b.ready) + 1 - 1) * BlockSize[s] + i
      <4>1. taken + Len(b.ready) + 1 - 1 = taken + Len(b.ready)
        BY <1>1
      <4> QED
        BY <4>1, <1>5, <1>6 DEF base
    <3>3. [i \in 1 .. BlockSize[s] |-> cur[i]]
             = [i \in 1 .. BlockSize[s] |-> (taken + Len(b.ready) + 1 - 1) * BlockSize[s] + i]
      BY <3>2
    <3>4. Block(s, taken + Len(b.ready) + 1)
             = [i \in 1 .. BlockSize[s] |-> (taken + Len(b.ready) + 1 - 1) * BlockSize[s] + i]
      BY DEF Block
    <3> QED
      BY <3>1, <3>3, <3>4
  <2> HIDE DEF c
  <2>4. BufferType(c)
    <3>1. b.ready \in Seq(Seq(Nat)) /\ <<>> \in Seq(Nat) /\ b.eof \in BOOLEAN
      BY DEF BufferType
    <3>2. c.ready \in Seq(Seq(Nat))
      BY <1>4, <2>2, <3>1, AppendProperties
    <3>3. c.read \in Nat
      BY <1>1, <2>2
    <3> QED
      BY <2>2, <3>1, <3>2, <3>3 DEF BufferType
  <2>5. /\ Len(c.ready) = Len(b.ready) + 1
        /\ \A i \in 1 .. Len(b.ready) : c.ready[i] = b.ready[i]
        /\ c.ready[Len(b.ready) + 1] = cur
    <3>1. b.ready \in Seq(Seq(Nat))
      BY DEF BufferType
    <3> QED
      BY <1>4, <2>2, <3>1, AppendProperties
  <2>6. \A i \in 1 .. Len(c.ready) : c.ready[i] = Block(s, taken + i)
    <3>1. SUFFICES ASSUME NEW i \in 1 .. Len(c.ready) PROVE c.ready[i] = Block(s, taken + i)
      OBVIOUS
    <3>2. CASE i \in 1 .. Len(b.ready)
      BY <3>2, <2>5 DEF BufferWhole
    <3>3. CASE i = Len(b.ready) + 1
      <4>1. taken + Len(b.ready) + 1 = taken + i
        BY <3>3, <1>1
      <4> QED
        BY <3>3, <4>1, <2>5, <2>3
    <3> QED
      BY <3>2, <3>3, <2>5, <1>1
  <2>7. c.read = (taken + Len(c.ready)) * BlockSize[s] + Len(c.cur)
    <3>1. b.read = base + Len(b.cur) /\ c.read = base + BlockSize[s]
      <4>1. BlockSize[s] = Len(b.cur) + k /\ c.read = b.read + k
        BY <1>4, <1>6, <2>2
      <4> QED
        BY <1>1, <1>2, <1>w, <4>1
    <3>2. taken + Len(c.ready) = taken + Len(b.ready) + 1 /\ Len(c.cur) = 0
      BY <2>2, <2>5, <1>1
    <3>3. (taken + Len(c.ready)) * BlockSize[s] = base + BlockSize[s]
      BY <3>2, <1>m, Zenon
    <3>4. PICK x \in Nat : x = base + BlockSize[s]
      BY <1>1, <1>2
    <3>5. x + 0 = x
      OBVIOUS
    <3> QED
      BY <3>1, <3>2, <3>3, <3>4, <3>5, Zenon
  <2> QED
    BY <2>1, <2>2, <2>4, <2>6, <2>7, BlockSizes DEF BufferWhole
<1>7. CASE Len(cur) # BlockSize[s]
  <2> DEFINE c == [b EXCEPT !.read = @ + k, !.cur = cur]
  <2>1. ReadUnits(s, b, k) = c
    BY <1>7 DEF ReadUnits, cur
  <2>2. c.read = b.read + k /\ c.ready = b.ready /\ c.cur = cur /\ c.eof = b.eof
    BY DEF Buffer
  <2> HIDE DEF c
  <2>3. BufferType(c)
    BY <1>1, <1>4, <2>2 DEF BufferType
  <2>4. c.read = (taken + Len(c.ready)) * BlockSize[s] + Len(c.cur)
    <3>1. c.read = base + Len(c.cur)
      <4>1. PICK m \in Nat, t \in Nat : m = Len(b.cur) /\ t = base
        BY <1>1, <1>2
      <4>2. (t + m) + k = t + (m + k)
        OBVIOUS
      <4>3. c.read = (t + m) + k /\ Len(c.cur) = m + k
        BY <1>4, <1>w, <2>2, <4>1, Zenon
      <4> QED
        BY <4>1, <4>2, <4>3, Zenon
    <3> QED
      BY <2>2, <3>1 DEF base
  <2>5. Len(c.cur) < BlockSize[s]
    <3>1. PICK x \in Nat, y \in Nat : x = Len(cur) /\ y = BlockSize[s] /\ x <= y
      BY <1>1, <1>4
    <3>2. x < y
      BY <1>7, <3>1
    <3> QED
      BY <2>2, <3>1, <3>2
  <2> QED
    BY <2>1, <2>2, <2>3, <2>4, <2>5, <1>5 DEF BufferWhole, base
<1> QED
  BY <1>6, <1>7

\* Whatever update( ) finds in a pipe, its buffer stays whole.
LEMMA ReadKeepsWhole ==
    ASSUME NEW s \in Pipes, NEW taken \in Nat, NEW revents,
           written[s] \in Nat, BufferType(Buffer(s)), BufferWhole(s, Buffer(s), taken),
           NEW c \in Handle(s, revents)
    PROVE  BufferType(c) /\ BufferWhole(s, c, taken)
<1> DEFINE b == Buffer(s)
<1>0. /\ b.read = consumed[s] /\ b.cur = current_read_buf[s]
      /\ b.ready = ready_blocks[s] /\ b.eof = eof[s]
  BY DEF Buffer
<1>1. c = b \/ c = set_eof(b) \/ c \in read_more(s)
  BY DEF Handle
<1>2. CASE c = b
  BY <1>2
<1>3. CASE c = set_eof(b)
  <2>1. c.read = b.read /\ c.cur = b.cur /\ c.ready = b.ready /\ c.eof = TRUE
    BY <1>3 DEF set_eof, Buffer
  <2> HIDE DEF b
  <2> QED
    BY <2>1 DEF BufferType, BufferWhole, b
<1>4. CASE c \in read_more(s)
  <2>1. CASE b.eof
    BY <1>4, <1>2, <2>1 DEF read_more
  <2>2. CASE ~b.eof /\ Buffered(s) = 0
    <3>1. c = [b EXCEPT !.cur = <<>>, !.eof = TRUE]
      BY <1>4, <2>2 DEF read_more
    <3>2. c.read = b.read /\ c.cur = <<>> /\ c.ready = b.ready /\ c.eof = TRUE
      BY <3>1 DEF Buffer
    <3> HIDE DEF b
    <3> QED
      <4>1. <<>> \in Seq(Nat) /\ Len(<<>>) = 0
        OBVIOUS
      <4>2. BufferType(c)
        BY <3>2, <4>1 DEF BufferType, b
      <4>3. \A i \in 1 .. Len(c.ready) : c.ready[i] = Block(s, taken + i)
        BY <3>2 DEF BufferWhole, b
      <4> QED
        BY <3>2, <4>1, <4>2, <4>3, BlockSizes DEF BufferWhole
  <2>3. CASE ~b.eof /\ Buffered(s) # 0
    <3>1. PICK k \in 1 .. (IF Buffered(s) < BlockSize[s] - Len(b.cur)
                           THEN Buffered(s) ELSE BlockSize[s] - Len(b.cur)) : c = ReadUnits(s, b, k)
      BY <1>4, <2>3 DEF read_more
    <3>2. k \in 1 .. BlockSize[s] - Len(b.cur)
      BY <3>1, BlockSizes DEF Buffered, BufferType, Buffer
    <3>3. k \in Nat /\ Len(b.cur) + k <= BlockSize[s]
      BY <3>2, BlockSizes DEF BufferType
    <3> QED
      BY <3>1, <3>3, <2>3, UnitsFit
  <2> QED
    BY <2>1, <2>2, <2>3
<1> QED
  BY <1>1, <1>2, <1>3, <1>4

TakenOf(s) == IF s = "video" THEN drawn ELSE audio

PipesInv ==
    /\ PipeTypeOK /\ BlockInv
    /\ \A s \in Pipes : BlocksWhole(s, TakenOf(s))

LEMMA UpdateKeeps ==
    ASSUME PipesInv, NEW s \in Pipes, update(s), TakenOf(s) \in Nat,
           UNCHANGED <<drawn, audio>>
    PROVE  PipesInv'
<1>1. PICK revents \in Revents(s) : \E c \in Handle(s, revents) :
          /\ consumed' = [consumed EXCEPT ![s] = c.read]
          /\ current_read_buf' = [current_read_buf EXCEPT ![s] = c.cur]
          /\ ready_blocks' = [ready_blocks EXCEPT ![s] = c.ready]
          /\ eof' = [eof EXCEPT ![s] = c.eof]
          /\ UNCHANGED <<written, hungup>>
  BY Zenon DEF update
<1>2. PICK c \in Handle(s, revents) :
          /\ consumed' = [consumed EXCEPT ![s] = c.read]
          /\ current_read_buf' = [current_read_buf EXCEPT ![s] = c.cur]
          /\ ready_blocks' = [ready_blocks EXCEPT ![s] = c.ready]
          /\ eof' = [eof EXCEPT ![s] = c.eof]
          /\ UNCHANGED <<written, hungup>>
  BY <1>1
<1>3. BufferType(Buffer(s)) /\ written[s] \in Nat
  BY DEF PipesInv, PipeTypeOK, BufferType, Buffer
<1>4. BufferWhole(s, Buffer(s), TakenOf(s))
  BY DEF PipesInv, BlockInv, BlocksWhole, BufferWhole, Buffer
<1>5. BufferType(c) /\ BufferWhole(s, c, TakenOf(s))
  BY <1>3, <1>4, ReadKeepsWhole
<1>6. PipeTypeOK'
  BY <1>2, <1>5 DEF PipesInv, PipeTypeOK, BufferType
<1>7. ASSUME NEW r \in Pipes
      PROVE  (Len(current_read_buf[r]) < BlockSize[r] /\ BlocksWhole(r, TakenOf(r)))'
  <2>1. TakenOf(r)' = TakenOf(r)
    BY DEF TakenOf
  <2>2. CASE r = s
    <3>1. /\ consumed'[r] = c.read /\ current_read_buf'[r] = c.cur
          /\ ready_blocks'[r] = c.ready /\ eof'[r] = c.eof
      BY <1>2, <2>2 DEF PipesInv, PipeTypeOK
    <3> QED
      BY <1>5, <2>1, <2>2, <3>1 DEF BlocksWhole, BufferWhole
  <2>3. CASE r # s
    <3>1. /\ consumed'[r] = consumed[r] /\ current_read_buf'[r] = current_read_buf[r]
          /\ ready_blocks'[r] = ready_blocks[r] /\ eof'[r] = eof[r]
      BY <1>2, <2>3 DEF PipesInv, PipeTypeOK
    <3> QED
      BY <2>1, <3>1 DEF PipesInv, BlockInv, BlocksWhole
  <2> QED
    BY <2>2, <2>3
<1> QED
  BY <1>6, <1>7 DEF PipesInv, BlockInv

\* The block taken is the next one.
LEMMA TakeKeeps ==
    ASSUME PipesInv, NEW s \in Pipes, TakeBlock(s), TakenOf(s) \in Nat,
           TakenOf(s)' = TakenOf(s) + 1, \A r \in Pipes \ {s} : TakenOf(r)' = TakenOf(r)
    PROVE  PipesInv' /\ Head(ready_blocks[s]) = Block(s, TakenOf(s) + 1)
<1>1. /\ ready_blocks[s] # <<>>
      /\ ready_blocks' = [ready_blocks EXCEPT ![s] = Tail(@)]
      /\ UNCHANGED <<written, hungup, consumed, current_read_buf, eof>>
  BY DEF TakeBlock
<1>2. ready_blocks[s] \in Seq(Seq(Nat)) /\ ready_blocks'[s] = Tail(ready_blocks[s])
  BY <1>1 DEF PipesInv, PipeTypeOK
<1> DEFINE n == Len(ready_blocks[s])
<1>3. /\ n \in Nat /\ n > 0 /\ Len(ready_blocks'[s]) = n - 1
      /\ ready_blocks'[s] \in Seq(Seq(Nat))
      /\ Head(ready_blocks[s]) = ready_blocks[s][1]
      /\ \A i \in 1 .. n - 1 : ready_blocks'[s][i] = ready_blocks[s][i + 1]
  <2>1. n \in Nat /\ n > 0 /\ Head(ready_blocks[s]) = ready_blocks[s][1]
    BY <1>1, <1>2
  <2>2. /\ Tail(ready_blocks[s]) \in Seq(Seq(Nat)) /\ Len(Tail(ready_blocks[s])) = n - 1
        /\ \A i \in 1 .. Len(Tail(ready_blocks[s])) : Tail(ready_blocks[s])[i] = ready_blocks[s][i + 1]
    BY <1>1, <1>2, HeadTailProperties
  <2> QED
    BY <1>2, <2>1, <2>2
<1>4. Head(ready_blocks[s]) = Block(s, TakenOf(s) + 1)
  BY <1>3 DEF PipesInv, BlocksWhole
<1>5. PipeTypeOK'
  BY <1>1, <1>3 DEF PipesInv, PipeTypeOK
<1>6. ASSUME NEW r \in Pipes
      PROVE  (Len(current_read_buf[r]) < BlockSize[r] /\ BlocksWhole(r, TakenOf(r)))'
  <2>1. CASE r = s
    <3>1. TakenOf(s)' + Len(ready_blocks'[s]) = TakenOf(s) + n
      BY <1>3
    <3>2. ASSUME NEW i \in 1 .. n - 1 PROVE ready_blocks'[s][i] = Block(s, TakenOf(s)' + i)
      <4>1. TakenOf(s)' + i = TakenOf(s) + (i + 1) /\ i + 1 \in 1 .. n
        <5>1. i \in Nat /\ i + 1 \in 1 .. n
          BY <1>3
        <5> HIDE DEF n
        <5> QED
          BY <5>1
      <4> QED
        BY <1>3, <4>1 DEF PipesInv, BlocksWhole
    <3>3. \A i \in 1 .. Len(ready_blocks'[s]) : ready_blocks'[s][i] = Block(s, TakenOf(s)' + i)
      BY <1>3, <3>2
    <3>4. /\ ~eof[s] => consumed[s] = (TakenOf(s)' + Len(ready_blocks'[s])) * BlockSize[s]
                                       + Len(current_read_buf[s])
          /\ \A i \in 1 .. Len(current_read_buf[s]) :
                current_read_buf[s][i] = (TakenOf(s)' + Len(ready_blocks'[s])) * BlockSize[s] + i
          /\ Len(current_read_buf[s]) < BlockSize[s]
      BY <3>1 DEF PipesInv, BlockInv, BlocksWhole
    <3>5. Block(s, TakenOf(s))' = Block(s, TakenOf(s)') /\ UNCHANGED <<eof, consumed, current_read_buf>>
      BY <1>1 DEF Block
    <3> QED
      BY <2>1, <3>3, <3>4, <3>5 DEF BlocksWhole
  <2>2. CASE r # s
    <3>1. /\ consumed'[r] = consumed[r] /\ current_read_buf'[r] = current_read_buf[r]
          /\ ready_blocks'[r] = ready_blocks[r] /\ eof'[r] = eof[r] /\ TakenOf(r)' = TakenOf(r)
      BY <1>1, <2>2 DEF PipesInv, PipeTypeOK
    <3> QED
      BY <3>1 DEF PipesInv, BlockInv, BlocksWhole
  <2> QED
    BY <2>1, <2>2
<1> QED
  BY <1>4, <1>5, <1>6 DEF PipesInv, BlockInv

LEMMA SamePipes ==
    ASSUME PipesInv, UNCHANGED <<bufferVars, drawn, audio>>,
           written' \in [Pipes -> Nat], hungup' \in [Pipes -> BOOLEAN]
    PROVE  PipesInv'
  BY DEF PipesInv, bufferVars, PipeTypeOK, BlockInv, BlocksWhole, TakenOf

-----------------------------------------------------------------------------
(* The samples on their way to aplay.                                       *)

Samples(k) == [i \in 1 .. k * BlockSize["audio"] |-> i]

AudioInv ==
    /\ {drawn, audio, inAplayPipe} \subseteq Nat
    /\ buf \in Seq(Nat) /\ played \in Seq(Nat)
    /\ clean \in BOOLEAN /\ aplay \in {"runs", "dead"}
    /\ played \o buf = Samples(audio)

StreamInv == PipesInv /\ AudioInv

LEMMA BothPipes == {"video", "audio"} = Pipes
  BY TwoPipes

LEMMA CountOn ==
    ASSUME NEW m \in Nat, NEW d \in Nat
    PROVE  [i \in 1 .. m |-> i] \o [i \in 1 .. d |-> m + i] = [i \in 1 .. m + d |-> i]
<1> DEFINE a == [i \in 1 .. m |-> i]
           b == [i \in 1 .. d |-> m + i]
<1>1. a \in Seq(Nat) /\ Len(a) = m /\ \A i \in 1 .. m : a[i] = i
  OBVIOUS
<1>2. b \in Seq(Nat) /\ Len(b) = d /\ \A i \in 1 .. d : b[i] = m + i
  OBVIOUS
<1> HIDE DEF a, b
<1>3. /\ a \o b \in Seq(Nat) /\ Len(a \o b) = m + d
      /\ \A i \in 1 .. m + d : (a \o b)[i] = IF i <= m THEN a[i] ELSE b[i - m]
  <2>1. /\ a \o b \in Seq(Nat) /\ Len(a \o b) = Len(a) + Len(b)
        /\ \A i \in 1 .. Len(a) + Len(b) :
              (a \o b)[i] = IF i <= Len(a) THEN a[i] ELSE b[i - Len(a)]
    BY <1>1, <1>2, ConcatProperties
  <2> QED
    BY <1>1, <1>2, <2>1
<1>4. \A i \in 1 .. m + d : (a \o b)[i] = i
  BY <1>1, <1>2, <1>3
<1>5. [i \in 1 .. m + d |-> i] \in Seq(Nat) /\ Len([i \in 1 .. m + d |-> i]) = m + d
  OBVIOUS
<1>6. a \o b = [i \in 1 .. m + d |-> i]
  BY <1>3, <1>4, <1>5, SeqEqual
<1> QED
  BY <1>6 DEF a, b

\* A block on top of the samples so far makes the samples up to it.
LEMMA SamplesGrow ==
    ASSUME NEW k \in Nat
    PROVE  Samples(k) \o Block("audio", k + 1) = Samples(k + 1)
<1>1. BlockSize["audio"] \in Nat
  BY BlockSizes, BothPipes
<1>2. k * BlockSize["audio"] \in Nat
      /\ (k + 1) * BlockSize["audio"] = k * BlockSize["audio"] + BlockSize["audio"]
  BY <1>1, Multiples
<1>3. Block("audio", k + 1) = [i \in 1 .. BlockSize["audio"] |-> k * BlockSize["audio"] + i]
  <2>1. Block("audio", k + 1) = [i \in 1 .. BlockSize["audio"] |-> (k + 1 - 1) * BlockSize["audio"] + i]
    BY DEF Block
  <2>2. k + 1 - 1 = k
    OBVIOUS
  <2> QED
    BY <2>1, <2>2
<1>4. Samples(k + 1) = [i \in 1 .. k * BlockSize["audio"] + BlockSize["audio"] |-> i]
  BY <1>2 DEF Samples
<1> QED
  BY <1>1, <1>2, <1>3, <1>4, CountOn DEF Samples

LEMMA Associates ==
    ASSUME NEW x \in Seq(Nat), NEW y \in Seq(Nat), NEW z \in Seq(Nat)
    PROVE  (x \o y) \o z = x \o (y \o z)
  BY ConcatAssociative, SMTT(60)

\* What is written leaves the rest in hand.
LEMMA WriteKeeps ==
    ASSUME NEW p \in Seq(Nat), NEW b \in Seq(Nat), NEW n \in 1 .. Len(b)
    PROVE  /\ p \o SubSeq(b, 1, n) \in Seq(Nat) /\ SubSeq(b, n + 1, Len(b)) \in Seq(Nat)
           /\ (p \o SubSeq(b, 1, n)) \o SubSeq(b, n + 1, Len(b)) = p \o b
<1>1. Len(b) \in Nat /\ n \in Nat /\ n <= Len(b) /\ 1 \in 1 .. Len(b) + 1 /\ n \in 0 .. Len(b)
  OBVIOUS
<1>2. \A i \in 1 .. Len(b) : b[i] \in Nat
  BY ElementOfSeq
<1>3. SubSeq(b, 1, n) \in Seq(Nat) /\ SubSeq(b, n + 1, Len(b)) \in Seq(Nat)
  BY <1>1, <1>2, SubSeqProperties
<1>4. SubSeq(b, 1, Len(b)) = SubSeq(b, 1, n) \o SubSeq(b, n + 1, Len(b))
  BY <1>1, ConcatAdjacentSubSeq
<1>5. SubSeq(b, 1, Len(b)) = b
  BY SubSeqFull
<1> QED
  <2>1. (p \o SubSeq(b, 1, n)) \o SubSeq(b, n + 1, Len(b))
          = p \o (SubSeq(b, 1, n) \o SubSeq(b, n + 1, Len(b)))
    BY <1>3, Associates
  <2>2. p \o SubSeq(b, 1, n) \in Seq(Nat)
    BY <1>3, ConcatProperties
  <2> QED
    BY <1>3, <1>4, <1>5, <2>1, <2>2

LEMMA NextAudioKeeps ==
    ASSUME StreamInv, NEW rest \in Seq(Nat), NextAudio(rest),
           played' \in Seq(Nat), played' \o rest = Samples(audio),
           UNCHANGED drawn
    PROVE  PipesInv' /\ audio' \in Nat /\ buf' \in Seq(Nat) /\ played' \o buf' = Samples(audio')
<1>0. audio \in Nat /\ drawn \in Nat
  BY DEF StreamInv, AudioInv
<1>1. CASE rest = <<>> /\ ready_blocks["audio"] # <<>>
  <2>1. buf' = Head(ready_blocks["audio"]) /\ audio' = audio + 1 /\ TakeBlock("audio")
    BY <1>1 DEF NextAudio
  <2>2. /\ TakenOf("audio") = audio /\ TakenOf("audio")' = audio + 1
        /\ \A r \in Pipes \ {"audio"} : TakenOf(r)' = TakenOf(r)
    BY <2>1, BothPipes DEF TakenOf
  <2>3. PipesInv' /\ Head(ready_blocks["audio"]) = Block("audio", audio + 1)
    BY <1>0, <2>1, <2>2, BothPipes, TakeKeeps DEF StreamInv
  <2>4. ready_blocks["audio"] \in Seq(Seq(Nat))
    BY BothPipes DEF StreamInv, PipesInv, PipeTypeOK
  <2>5. Head(ready_blocks["audio"]) \in Seq(Nat)
    BY <1>1, <2>4, HeadTailProperties
  <2>6. played' = Samples(audio)
    BY <1>1, ConcatEmptySeq
  <2>7. played' \o buf' = Samples(audio + 1)
    BY <1>0, <2>1, <2>3, <2>6, SamplesGrow
  <2> QED
    BY <1>0, <2>1, <2>3, <2>5, <2>7
<1>2. CASE ~(rest = <<>> /\ ready_blocks["audio"] # <<>>)
  <2>1. buf' = rest /\ UNCHANGED <<audio, pipeVars>>
    BY <1>2 DEF NextAudio
  <2>2. PipesInv'
    BY <2>1, SamePipes DEF StreamInv, PipesInv, PipeTypeOK, pipeVars
  <2> QED
    BY <1>0, <2>1, <2>2
<1> QED
  BY <1>1, <1>2

LEMMA AudioKeeps == ASSUME StreamInv, Audio PROVE StreamInv'
<1>1. UNCHANGED <<drawn, clean, aplay>>
  BY DEF Audio
<1>2. buf \in Seq(Nat) /\ played \in Seq(Nat) /\ inAplayPipe \in Nat /\ played \o buf = Samples(audio)
  BY DEF StreamInv, AudioInv
<1>3. CASE UNCHANGED <<played, inAplayPipe>> /\ NextAudio(buf)
  <2>1. PipesInv' /\ audio' \in Nat /\ buf' \in Seq(Nat) /\ played' \o buf' = Samples(audio')
    BY <1>1, <1>2, <1>3, NextAudioKeeps
  <2> QED
    BY <1>1, <1>2, <1>3, <2>1 DEF StreamInv, AudioInv, Samples
<1>4. CASE \E n \in 1 .. Len(buf) : Write(n) /\ NextAudio(SubSeq(buf, n + 1, Len(buf)))
  <2>1. PICK n \in 1 .. Len(buf) : Write(n) /\ NextAudio(SubSeq(buf, n + 1, Len(buf)))
    BY <1>4
  <2>2. played' = played \o SubSeq(buf, 1, n) /\ inAplayPipe' = inAplayPipe + n
    BY <2>1 DEF Write
  <2>3. /\ played' \in Seq(Nat) /\ SubSeq(buf, n + 1, Len(buf)) \in Seq(Nat)
        /\ played' \o SubSeq(buf, n + 1, Len(buf)) = Samples(audio)
    BY <1>2, <2>2, WriteKeeps
  <2>4. PipesInv' /\ audio' \in Nat /\ buf' \in Seq(Nat) /\ played' \o buf' = Samples(audio')
    BY <1>1, <2>1, <2>3, NextAudioKeeps
  <2>5. inAplayPipe' \in Nat
    BY <1>2, <2>2
  <2> QED
    BY <1>1, <1>2, <2>3, <2>4, <2>5 DEF StreamInv, AudioInv, Samples
<1> QED
  BY <1>3, <1>4 DEF Audio

LEMMA StreamStep == ASSUME StreamInv, [Next]_vars PROVE StreamInv'
<1>0. drawn \in Nat /\ audio \in Nat
  BY DEF StreamInv, AudioInv
<1>1. CASE Audio
  BY <1>1, AudioKeeps
<1>2. CASE Update
  <2>1. PICK s \in Pipes : update(s)
    BY <1>2, BothPipes DEF Update
  <2>2. UNCHANGED <<drawn, buf, clean, audio, played, inAplayPipe, aplay>>
    BY <1>2 DEF Update
  <2>3. PipesInv'
    BY <1>0, <2>1, <2>2, UpdateKeeps DEF StreamInv, TakenOf
  <2> QED
    BY <2>2, <2>3 DEF StreamInv, AudioInv, Samples
<1>3. CASE DrawBegin
  <2>1. TakeBlock("video") /\ drawn' = drawn + 1 /\ UNCHANGED <<buf, clean, audio, played, inAplayPipe, aplay>>
    BY <1>3 DEF DrawBegin
  <2>2. /\ TakenOf("video") = drawn /\ TakenOf("video")' = drawn + 1
        /\ \A r \in Pipes \ {"video"} : TakenOf(r)' = TakenOf(r)
    BY <2>1 DEF TakenOf
  <2>3. PipesInv'
    BY <1>0, <2>1, <2>2, BothPipes, TakeKeeps DEF StreamInv
  <2> QED
    BY <1>0, <2>1, <2>3 DEF StreamInv, AudioInv, Samples
<1>4. CASE UNCHANGED <<bufferVars, drawn, audio, buf, played, clean>>
  <2>1. PipesInv
    BY DEF StreamInv
  <2>2. /\ written' \in [Pipes -> Nat] /\ hungup' \in [Pipes -> BOOLEAN]
        /\ inAplayPipe' \in Nat /\ aplay' \in {"runs", "dead"}
    <3> USE DEF StreamInv, AudioInv, PipesInv, PipeTypeOK
    <3>1. CASE \E s \in Pipes : FfmpegWrites(s)
      BY <3>1 DEF FfmpegWrites, ffVars
    <3>2. CASE FfmpegEnds
      BY <3>2 DEF FfmpegEnds, ffVars
    <3>3. CASE AplayReads \/ AplayDies
      BY <3>3 DEF AplayReads, AplayDies, pipeVars
    <3>4. CASE UNCHANGED <<pipeVars, inAplayPipe, aplay>>
      BY <3>4 DEF pipeVars
    <3>5. CASE Finished \/ NoFrame \/ DrawEnd \/ SetNextFrame \/ AudioKills \/ Card \/ UNCHANGED vars
      BY <3>4, <3>5 DEF Finished, NoFrame, DrawEnd, SetNextFrame, AudioKills, Card, vars, ffVars
    <3> QED
      BY <1>1, <1>2, <1>3, <3>1, <3>2, <3>3, <3>5 DEF Next, MainLoop
  <2> QED
    BY <1>4, <2>1, <2>2, SamePipes DEF StreamInv, AudioInv, Samples
<1> QED
  <2>1. CASE Finished \/ NoFrame \/ DrawEnd \/ SetNextFrame \/ AudioKills \/ Card \/ UNCHANGED vars
    BY <2>1, <1>4 DEF Finished, NoFrame, DrawEnd, SetNextFrame, AudioKills, Card, vars, ffVars, pipeVars
  <2>2. CASE (\E s \in Pipes : FfmpegWrites(s)) \/ FfmpegEnds \/ AplayReads \/ AplayDies
    BY <2>2, <1>4 DEF FfmpegWrites, FfmpegEnds, AplayReads, AplayDies, ffVars, pipeVars
  <2> QED
    BY <1>1, <1>2, <1>3, <2>1, <2>2 DEF Next, MainLoop

-----------------------------------------------------------------------------
(* The theorems.                                                            *)

LEMMA InvParts == IInv <=> PictureInv /\ StreamInv
<1>1. TakenOf("video") = drawn /\ TakenOf("audio") = audio
  BY DEF TakenOf
<1>2. (\A s \in Pipes : BlocksWhole(s, TakenOf(s)))
         <=> BlocksWhole("video", drawn) /\ BlocksWhole("audio", audio)
  BY <1>1, BothPipes
<1>3. StreamsWhole /\ BlockInv /\ TypeOK => StreamInv
  BY <1>2 DEF StreamsWhole, TypeOK, StreamInv, PipesInv, AudioInv, Samples
<1>4. StreamInv => StreamsWhole /\ BlockInv
  BY <1>2 DEF StreamsWhole, StreamInv, PipesInv, AudioInv, Samples
<1>5. TypeOK <=> PictureType /\ PipeTypeOK /\ {drawn, audio, inAplayPipe} \subseteq Nat
                 /\ {buf, played} \subseteq Seq(Nat) /\ clean \in BOOLEAN /\ aplay \in {"runs", "dead"}
  BY DEF TypeOK, PictureType
<1>6. PictureType /\ StreamInv => TypeOK
  BY <1>5 DEF StreamInv, PipesInv, AudioInv
<1> QED
  BY <1>3, <1>4, <1>5, <1>6 DEF IInv, PictureInv

LEMMA InitInv == Init => IInv
<1> SUFFICES ASSUME Init PROVE PictureInv /\ StreamInv
  BY InvParts
<1>1. PictureInv
  <2>1. PictureType
    BY DEF Init, OutputInit, PictureType, Content, Black, Ended
  <2>2. RefsExact /\ LocalsInv
    BY ThePicture DEF Init, OutputInit, RefsExact, LocalsInv
  <2>3. DrawnInv /\ CopyInv
    BY ThePicture DEF Init, OutputInit, DrawnInv, CopyInv, Drawing, NotNext, Black
  <2> QED
    BY <2>1, <2>2, <2>3 DEF PictureInv
<1>2. PipesInv
  <2>1. PipeTypeOK
    BY DEF Init, PipeInit, PipeTypeOK
  <2>2. ASSUME NEW s \in Pipes
        PROVE  Len(current_read_buf[s]) < BlockSize[s] /\ BlocksWhole(s, TakenOf(s))
    <3>1. /\ current_read_buf[s] = <<>> /\ ready_blocks[s] = <<>> /\ consumed[s] = 0
          /\ TakenOf(s) = 0 /\ Len(<<>>) = 0
      BY DEF Init, PipeInit, TakenOf
    <3>2. BlockSize[s] \in Nat /\ BlockSize[s] > 0 /\ (0 + 0) * BlockSize[s] = 0
      BY BlockSizes
    <3> QED
      BY <3>1, <3>2 DEF BlocksWhole
  <2> QED
    BY <2>1, <2>2 DEF PipesInv, BlockInv
<1>3. AudioInv
  <2>1. Samples(0) = <<>>
    <3>1. 0 * BlockSize["audio"] = 0
      BY BlockSizes, BothPipes
    <3> QED
      BY <3>1 DEF Samples
  <2> QED
    BY <2>1 DEF Init, AudioInv
<1> QED
  BY <1>1, <1>2, <1>3 DEF StreamInv

\* The inductive invariant.
THEOREM Inductive == Spec => []IInv
<1>1. Init => IInv
  BY InitInv
<1>2. IInv /\ [Next]_vars => IInv'
  <2> SUFFICES ASSUME IInv, [Next]_vars PROVE IInv'
    OBVIOUS
  <2>1. (PictureInv /\ StreamInv)'
    BY InvParts, PictureStep, StreamStep
  <2> QED
    BY <2>1, InvParts, PTL
<1> QED
  BY <1>1, <1>2, PTL DEF Spec

\* Every variable of ffoutput and of its two buffers keeps its type.
THEOREM TypeCorrect == Spec => []TypeOK
<1>1. IInv => TypeOK
  BY DEF IInv
<1> QED
  BY <1>1, Inductive, PTL

\* Every frame and every sample goes through once, in order and whole.
THEOREM StreamsKept == Spec => []StreamsWhole
<1>1. IInv => StreamsWhole
  BY DEF IInv
<1> QED
  BY <1>1, Inductive, PTL

\* The one picture is counted for each place that holds it, never more or less.
THEOREM RefsCounted == Spec => []RefsExact
<1>1. IInv => RefsExact
  BY DEF IInv
<1> QED
  BY <1>1, Inductive, PTL

\* What the card schedules is at most one frame behind and never steps back.
THEOREM InOrder == Spec => ScheduledInOrder
<1>1. IInv /\ [Next]_vars =>
        [card = "copied" /\ card' = "playing" =>
           \/ scheduled' = Torn
           \/ scheduled' >= drawn - 1 /\ (scheduled # Torn => scheduled' >= scheduled)]_vars
  <2> SUFFICES ASSUME IInv, [Next]_vars, card = "copied", card' = "playing"
               PROVE  \/ scheduled' = Torn
                      \/ scheduled' >= drawn - 1 /\ (scheduled # Torn => scheduled' >= scheduled)
    OBVIOUS
  <2>1. Schedule
    BY DEF Next, MainLoop, Finished, NoFrame, DrawBegin, DrawEnd, SetNextFrame, TakeReference,
           Swap, DropOld, Audio, AudioKills, Update, Card, FrameCompleted, TakeFrame, CopyBegin,
           CopyEnd, FfmpegWrites, FfmpegEnds, AplayReads, AplayDies, vars, outputVars, cardVars
  <2>2. scheduled' = copied
    BY <2>1 DEF Schedule
  <2>3. copied # Torn => copied \in {drawn, drawn - 1} /\ (scheduled # Torn => scheduled <= copied)
    BY DEF IInv, CopyInv
  <2>4. drawn \in Nat /\ scheduled \in Content
    BY DEF IInv, TypeOK
  <2> QED
    BY <2>2, <2>3, <2>4 DEF Content, Torn
<1> QED
  BY <1>1, Inductive, PTL DEF Spec, ScheduledInOrder
=============================================================================
