------------------------------ MODULE Capture ------------------------------
(***************************************************************************)
(* The capture programs: v4l2_ingest.cpp, uyvy_ingest.cpp and              *)
(* decklink_ingest.cpp.  Each takes interlaced pictures from its source,   *)
(* encodes one, stamps it with the scoreboard clock of the moment          *)
(* (MmapState) and puts it into the ring (MmapBuffer, here one step).      *)
(*                                                                         *)
(* A card that works with even dominance gives [E O | E O ...]; v4l2_ingest*)
(* makes odd-dominant frames of it by taking the even scanlines of the     *)
(* next picture.  For that it keeps a buffer of the driver one picture     *)
(* longer than it waits for the next one.  The other two sources are       *)
(* odd-dominant as they come.                                              *)
(*                                                                         *)
(* A scanline is the set of the scans it shows, each the instant it was    *)
(* shot at and its place in the picture: the two fields of picture n are   *)
(* shot at the instants 2n and 2n + 1.                                     *)
(***************************************************************************)
EXTENDS MmapState, MjpegCodec, Sequences

CONSTANTS Ingest,      \* the pid of the capture program
          NBuffers,    \* n_buffers: what v4l2_ingest lends to the driver
          Margin,      \* scanlines of a card's picture above the first used
          MaxPicture   \* bound on the pictures the source takes

ASSUME IngestAssumption == Ingests = {Ingest}
ASSUME BuffersAssumption == NBuffers \in Nat \ {0}
ASSUME MarginAssumption == Margin \in Nat /\ Margin % 2 = 0
ASSUME MaxPictureAssumption == MaxPicture \in Nat

VARIABLES program,      \* which of the three runs
          at,           \* where its loop (or the card's callback) is
          shot,         \* the number of the last picture the source took
          queued,       \* v4l2: buffers the driver may fill, in its order
          filled,       \* v4l2: buffers it has filled, in its order
          content,      \* v4l2: what each buffer holds
          p_current,    \* v4l2: the buffer dequeued last
          p_last,       \* v4l2: the one before, or NULL
          input,        \* uyvy: the picture being read
          read_so_far,  \* uyvy: how many of its scanlines have come
          frm,          \* out_frame of the encoder
          frames        \* what was put into the ring

sourceVars == <<shot, queued, filled, content, input, read_so_far>>
programVars == <<program, at, p_current, p_last, frm, frames>>
captureVars == <<vars, sourceVars, programVars>>

Buffer == 0 .. NBuffers - 1
NULL == NBuffers

Moment == 0 .. 2 * MaxPicture + 1
Scan == Moment \X (0 .. 2 * FieldHeight + Margin)
Image == [Line -> SUBSET Scan]
Blank == [i \in Line |-> {}]

Frame == [clock : 0 .. MaxClock, interlaced : BOOLEAN, odd_dominant : BOOLEAN,
          f1 : Image, f2 : {Blank}]

CaptureTypeOK ==
    /\ TypeOK
    /\ program \in {"v4l2", "uyvy", "decklink"}
    /\ at \in {"wait", "encode", "clock", "stamping", "put", "give back"}
    /\ shot \in 0 .. MaxPicture
    /\ queued \in Seq(Buffer) /\ filled \in Seq(Buffer)
    /\ content \in [Buffer -> Image]
    /\ {p_current, p_last} \subseteq Buffer \cup {NULL}
    /\ input \in Image /\ read_so_far \in 0 .. 2 * FieldHeight
    /\ frm \in Frame /\ frames \in Seq(Frame)

\* out_frame is the first thing the program allocates, in memory that is still
\* zero; uyvy_ingest never writes interlaced.
CaptureInit ==
    /\ Init
    /\ program \in {"v4l2", "uyvy", "decklink"}
    /\ at = "wait"
    /\ shot = 0
    /\ queued = [i \in 1 .. NBuffers |-> i - 1] /\ filled = <<>>
    /\ content = [b \in Buffer |-> Blank]
    /\ p_current = NULL /\ p_last = NULL
    /\ input = Blank /\ read_so_far = 0
    /\ frm = [clock |-> 0, interlaced |-> FALSE, odd_dominant |-> FALSE,
              f1 |-> Blank, f2 |-> Blank]
    /\ frames = <<>>

-----------------------------------------------------------------------------
(* The sources.                                                             *)

\* Scanline i of picture n, as the source gives it.
Shoot(n, i, odd_first) == {<<IF Odd(i) = odd_first THEN 2 * n ELSE 2 * n + 1, i>>}

\* The driver takes a picture into the next buffer it may fill; without one
\* the picture is lost.
DriverShoots ==
    /\ program = "v4l2" /\ Running(Ingest)
    /\ shot < MaxPicture
    /\ shot' = shot + 1
    /\ IF queued = <<>> THEN UNCHANGED <<queued, filled, content>>
       ELSE LET b == Head(queued) IN
            /\ queued' = Tail(queued)
            /\ filled' = Append(filled, b)
            /\ content' = [content EXCEPT ![b] =
                              [i \in Line |-> Shoot(shot', i, FALSE)]]
    /\ UNCHANGED <<vars, programVars, input, read_so_far>>

Waiting(prog) ==
    /\ program = prog
    /\ at = "wait"
    /\ pc[Ingest] = "idle"

-----------------------------------------------------------------------------
(* v4l2_ingest                                                              *)

\* VIDIOC_DQBUF; the first picture only becomes p_last.
Dequeue ==
    /\ Waiting("v4l2")
    /\ filled # <<>>
    /\ filled' = Tail(filled)
    /\ p_current' = Head(filled)
    /\ IF p_last = NULL THEN p_last' = Head(filled) /\ UNCHANGED at
                        ELSE at' = "encode" /\ UNCHANGED p_last
    /\ UNCHANGED <<vars, program, frm, frames, shot, queued, content, input, read_so_far>>

\* Variant: the even scanlines of the second go to the scanlines below.
make_odd_dominant_shifted(first, second) ==
    [i \in Line |-> IF Odd(i) THEN second[i - 1] ELSE first[i]]

make_odd_dominant(first, second) ==
    [i \in Line |-> IF Odd(i) THEN first[i] ELSE second[i]]

\* encode_full(p, true)
Encoded(p) == [frm EXCEPT !.odd_dominant = TRUE, !.f1 = p, !.f2 = Blank]

Merge ==
    /\ program = "v4l2" /\ at = "encode" /\ pc[Ingest] = "idle"
    /\ content' = [content EXCEPT ![p_last] = make_odd_dominant(content[p_last], content[p_current])]
    /\ frm' = [Encoded(content'[p_last]) EXCEPT !.interlaced = FALSE]
    /\ at' = "clock"
    /\ UNCHANGED <<vars, program, p_current, p_last, frames, shot, queued, filled, input, read_so_far>>

\* Variant: the buffer just dequeued is given back.
GiveBackCurrent ==
    /\ at = "give back" /\ pc[Ingest] = "idle"
    /\ queued' = Append(queued, p_current)
    /\ p_last' = p_current
    /\ at' = "wait"
    /\ UNCHANGED <<vars, program, p_current, frm, frames, shot, filled, content, input, read_so_far>>

\* VIDIOC_QBUF of v4l_lastbuf
GiveBack ==
    /\ at = "give back" /\ pc[Ingest] = "idle"
    /\ queued' = Append(queued, p_last)
    /\ p_last' = p_current
    /\ at' = "wait"
    /\ UNCHANGED <<vars, program, p_current, frm, frames, shot, filled, content, input, read_so_far>>

-----------------------------------------------------------------------------
(* uyvy_ingest: a picture comes in as many reads as the pipe likes.  After  *)
(* a read that fails with EAGAIN or EINTR nothing has changed.              *)

Read ==
    /\ Waiting("uyvy")
    /\ read_so_far < 2 * FieldHeight
    /\ shot < MaxPicture \/ read_so_far > 0
    /\ LET n == IF read_so_far = 0 THEN shot + 1 ELSE shot IN
       \E k \in 1 .. 2 * FieldHeight - read_so_far :
         /\ shot' = n
         /\ input' = [i \in Line |-> IF i \in read_so_far .. read_so_far + k - 1
                                     THEN Shoot(n, i, TRUE) ELSE input[i]]
         /\ read_so_far' = read_so_far + k
    /\ UNCHANGED <<vars, programVars, queued, filled, content>>

EncodeInput ==
    /\ Waiting("uyvy")
    /\ read_so_far = 2 * FieldHeight
    /\ frm' = Encoded(input)
    /\ at' = "clock"
    /\ UNCHANGED <<vars, sourceVars, program, p_current, p_last, frames>>

-----------------------------------------------------------------------------
(* decklink_ingest: the card calls back with every picture, unless the     *)
(* callback before has not returned yet; without a signal it does nothing. *)

VideoInputFrameArrived ==
    /\ Waiting("decklink")
    /\ \E n \in shot + 1 .. MaxPicture :
         /\ shot' = n
         /\ frm' = [Encoded([i \in Line |-> Shoot(n, i + Margin, TRUE)])
                       EXCEPT !.interlaced = FALSE]
    /\ at' = "clock"
    /\ UNCHANGED <<vars, program, p_current, p_last, frames, queued, filled, content, input, read_so_far>>

-----------------------------------------------------------------------------
(* All three: the clock, then the ring.                                     *)

\* clock_ipc.get( )
StampBegin ==
    /\ at = "clock"
    /\ GetBegin(Ingest)
    /\ at' = "stamping"
    /\ UNCHANGED <<sourceVars, program, p_current, p_last, frm, frames>>

StampEnd ==
    /\ at = "stamping"
    /\ Return(Ingest)
    /\ frm' = [frm EXCEPT !.clock = local[Ingest]]
    /\ at' = "put"
    /\ UNCHANGED <<sourceVars, program, p_current, p_last, frames>>

Put ==
    /\ at = "put" /\ pc[Ingest] = "idle"
    /\ frames' = Append(frames, frm)
    /\ read_so_far' = 0
    /\ at' = IF program = "v4l2" THEN "give back" ELSE "wait"
    /\ UNCHANGED <<vars, program, p_current, p_last, frm, shot, queued, filled, content, input>>

\* The program ends: at the end of the stream, when the driver refuses a
\* buffer, or when the image does not fit the encoder's 128 KB.
Exit ==
    /\ pc[Ingest] = "idle"
    /\ \/ program = "v4l2" /\ at \in {"wait", "encode", "give back"}
       \/ program = "uyvy" /\ at = "wait"
       \/ program = "decklink" /\ at = "wait"
    /\ Die(Ingest)
    /\ UNCHANGED <<stateVars, sourceVars, programVars>>

-----------------------------------------------------------------------------
IngestStep ==
    \/ Dequeue \/ Merge \/ GiveBack
    \/ EncodeInput
    \/ StampBegin \/ StampEnd \/ Put

\* clockd, and what happens inside the clock file's constructor and get( ).
ClockCall(p) ==
    /\ Call(p) /\ ~(p = Ingest /\ pc[p] = "done")
    /\ UNCHANGED <<sourceVars, programVars>>

ClockStep ==
    \/ \E p \in Proc : ClockCall(p)
    \/ /\ \E p \in Proc : Start(p) \/ PutBegin(p) \/ Kill(p)
       /\ UNCHANGED <<sourceVars, programVars>>

CaptureNext ==
    \/ DriverShoots \/ Read \/ VideoInputFrameArrived
    \/ IngestStep \/ Exit \/ ClockStep

CaptureSpec == CaptureInit /\ [][CaptureNext]_captureVars

\* The capture program runs on until it is killed; nothing is promised of the
\* source or of clockd.
CaptureFairSpec ==
    /\ CaptureSpec
    /\ WF_captureVars(IngestStep)
    /\ WF_captureVars(ClockCall(Ingest))

-----------------------------------------------------------------------------
\* No buffer of v4l2_ingest is in two places or lost while it runs: the driver
\* has it to fill, has filled it, or the program holds it, never more than two
\* of them and one only while it waits.  What the program merges from and into
\* is out of the driver's reach.
BuffersOwned ==
    program = "v4l2" =>
        LET held == {p_last, IF at = "wait" THEN p_last ELSE p_current} \ {NULL}
            all == queued \o filled IN
        /\ held \cup {all[i] : i \in DOMAIN all} = Buffer
        /\ \A i, j \in DOMAIN all : i # j => all[i] # all[j]
        /\ \A i \in DOMAIN all : all[i] \notin held
        /\ at # "wait" => p_last # NULL /\ p_current # p_last

\* In slow motion a stored frame is shown as its first and then its second
\* field, scan doubled.
Shown(frame) == <<decode_first_doubled(frame), decode_second_doubled(frame)>>

\* Whatever pictures the source loses and however they arrive, each field shown
\* is of one instant in all its scanlines, and every one is later than the one
\* shown before it: slow motion never steps back or mixes two instants.
FieldsInOrder ==
    /\ \A k \in DOMAIN frames : \A f \in 1 .. 2 : \E t \in Moment :
          \A i \in Line : \A s \in Shown(frames[k])[f][i] : s[1] = t
    /\ \A k, l \in DOMAIN frames : \A f, g \in 1 .. 2 :
          (k < l \/ (k = l /\ f < g)) =>
              \A s \in Shown(frames[k])[f][0], t \in Shown(frames[l])[g][0] : s[1] < t[1]

\* A stored frame looks the same, full or doubled, when it is stored as two
\* images, as field_split and mjpeg_ingest would have done.
SplitAgrees ==
    \A k \in DOMAIN frames :
        LET s == Split(frames[k]) IN
        /\ Shown(s) = Shown(frames[k])
        /\ decode_full(s) = decode_full(frames[k])

\* A picture dequeued, read or delivered is in the ring sooner or later, unless
\* clockd keeps the clock file busy or the program dies.
CaptureGoesOn ==
    <>[](\A q \in Proc \ {Ingest} : pc[q] \in {"unborn", "idle", "dead"})
      => []<>(at = "wait" \/ pc[Ingest] = "dead")
-----------------------------------------------------------------------------
(* Why the safety properties hold: the inductive invariant.                 *)

\* What each place in the loops takes for granted; what was read of the input is
\* of the picture shot last.
LoopInv ==
    /\ at \in {"encode", "give back"} => program = "v4l2"
    /\ program = "v4l2" /\ at # "wait" => p_current # NULL
    /\ program # "uyvy" => read_so_far = 0
    /\ program = "uyvy" => \A i \in Line : i < read_so_far => input[i] = Shoot(shot, i, TRUE)

\* Picture n as a card with even dominance takes it, and which one is in b.
Picture(n) == [i \in Line |-> Shoot(n, i, FALSE)]
NumberOf(image) == CHOOSE n \in 0 .. MaxPicture : image = Picture(n)
Number(b) == NumberOf(content[b])
Numbered(b) == Number(b) \in 0 .. shot /\ content[b] = Picture(Number(b))

\* The buffer dequeued last, whatever its name at the moment.
Newest == IF at = "wait" THEN p_last ELSE p_current

\* The buffers filled, and the one or two the program has yet to use, hold
\* pictures in the order they were shot.
PicturesInv ==
    program = "v4l2" =>
        /\ \A i \in DOMAIN filled : Numbered(filled[i])
        /\ \A i, j \in DOMAIN filled : i < j => Number(filled[i]) < Number(filled[j])
        /\ Newest # NULL => /\ Numbered(Newest)
                           /\ \A i \in DOMAIN filled : Number(Newest) < Number(filled[i])
        /\ at = "encode" => Numbered(p_last) /\ Number(p_last) < Number(p_current)

\* Frame f shows instant t in its odd scanlines and u in its even ones.
Timed(f, t, u) ==
    /\ ~f.interlaced /\ f.odd_dominant
    /\ \A i \in Line : \A s \in f.f1[i] : s[1] = IF Odd(i) THEN t ELSE u

\* Nothing in the ring is later than t.
Until(t) == \A k \in DOMAIN frames : \A i \in Line : \A s \in frames[k].f1[i] : s[1] <= t

\* The instant up to which the ring may go.
Now ==
    IF program = "v4l2"
    THEN LET b == IF at \in {"wait", "encode"} THEN p_last ELSE p_current IN
         IF b = NULL THEN 0 ELSE 2 * Number(b)
    ELSE IF read_so_far = 0 THEN 2 * shot + 1 ELSE 2 * shot - 1

\* Every frame shows its odd lines before its even ones and after all of the
\* frames before; the one on its way to the ring does so too.
FramesInv ==
    /\ ~frm.interlaced
    /\ \A k \in DOMAIN frames : \E t, u \in Moment : t < u /\ Timed(frames[k], t, u)
    /\ \A k, l \in DOMAIN frames : k < l => \A i, j \in Line :
          \A s \in frames[k].f1[i], r \in frames[l].f1[j] : s[1] < r[1]
    /\ IF at \in {"clock", "stamping", "put"}
       THEN \E t, u \in Moment :
              /\ t < u /\ Timed(frm, t, u) /\ Until(t - 1)
              /\ u <= IF program = "v4l2" THEN Now ELSE 2 * shot + 1
       ELSE Until(Now)

\* The inductive invariant; StateInv is MmapState's.
CaptureInv ==
    CaptureTypeOK /\ StateInv /\ LoopInv /\ BuffersOwned /\ PicturesInv /\ FramesInv
=============================================================================
